---- MODULE Spec2Model ----
(***************************************************************************)
(* Model of convoy/fleet.py: the distributed bootstrap coordinator         *)
(* (_setup_glusterfs, _update_container_images), the direct-SSH image      *)
(* update (_update_container_images_over_ssh), the subnet planner          *)
(* (_pool_virtual_network_subnet_address_space_check), the mount planner   *)
(* (_create_storage_cluster_mount_args), the configuration validator       *)
(* (_adjust_settings_for_pool_creation), the pool request builder          *)
(* (_construct_pool_object) and the pool actions (action_pool_add with     *)
(* _add_pool, action_pool_resize).                                         *)
(*                                                                         *)
(* Each function is a sequence of steps selected by pc.  Configuration     *)
(* values and service replies are drawn when the code reads them.  The     *)
(* batch service is the environment: it runs the submitted task            *)
(* (TaskRun) and may fail a task.get issued by a poll loop.                *)
(***************************************************************************)
EXTENDS Integers, Sequences, FiniteSets, TLC

(* ------------------------------ bounds -------------------------------- *)
\* largest number of dedicated nodes of a pool (and of a given node list)
MaxDedicated == 3
\* largest number of low-priority nodes of a pool
MaxLowPriority == 41
\* the poll counter saturates here (the loop itself is unbounded)
MaxPolls == 3
\* largest vm_count of a storage cluster
MaxClusterVms == 3
\* fault and update domains are numbered 0..MaxDomain
MaxDomain == 1
\* largest vm_count.dedicated and vm_count.low_priority of a pool specification
MaxTargetDedicated == 2
MaxTargetLowPriority == 1
\* largest number of shared data volumes of a configuration
MaxVolumes == 2
\* largest max_tasks_per_node of a pool specification
MaxTasksPerNode == 2
\* the compute nodes a pool can have are numbered 1..MaxPoolNodes
MaxPoolNodes == 3

(* ------------------------- program constants -------------------------- *)
\* fleet.py:1540  if len(procs) >= 40
SSHBatchCap == 40
\* fleet.py:779  1 << (32 - mask)
AddressBits == 32

VARIABLES
    fn,          \* the function running: "gluster", "update", "subnet", "mount",
                 \* "validate", "build", "add" or "resize"
    pc,          \* position in the function
    err,         \* kind of the exception that left the function, or "none"
    args,        \* the call's arguments
    cfg,         \* configuration values read so far
    pool,        \* result of batch_client.pool.get
    force_ssh,   \* local force_ssh of _update_container_images
    is_windows,  \* local is_windows of _update_container_images
    nodes,       \* the node list iterated: the nodes are 1..nodes
    idx,         \* number of nodes the for loop has gone through
    success,     \* local success
    jobState,    \* the ephemeral job in the service: absent, present, deleted
    taskState,   \* the task in the service: none, active, running, completed
    markers,     \* nodes on which the marker file exists
    exitOk,      \* the completed task has execution info with exit code 0
    observed,    \* the task state returned by the last task.get of the loop
    polls,       \* history: polls made, saturating at MaxPolls
    outcome,     \* history: "none", "Verified" or "Failed"
    checked,     \* history: nodes whose marker file was looked up
    logged,      \* history: nodes logged as lacking the marker file
    events,      \* history: service calls of the run, in order
    sshCalled,   \* history: _update_container_images_over_ssh was called
    procs,       \* len(procs): processes started and not yet joined
    started,     \* history: processes started
    joined,      \* history: processes joined
    failures,    \* local failures
    anyNonZero,  \* history: some joined process exited non-zero
    vnet,        \* subnet planner: virtual network settings and credentials read
    prefix,      \* subnet planner: _subnet.address_prefix
    vm_count,    \* subnet planner: pool_settings.vm_count
    allowable_addresses,  \* subnet planner: local, as <<high, low>> 16-bit limbs
    asked,       \* subnet planner, history: util.confirm_action was called
    confirmed,   \* subnet planner: the answer of util.confirm_action
    result,      \* subnet planner: value returned: "none", "None" or "subnet_id"
    sc,          \* mount planner: what the checks read of the storage cluster
    vms,         \* mount planner: (fd, ud) of the cluster nodes queried, in order
    mi,          \* mount planner: number of nodes the running pass has gone through
    primary,     \* mount planner: primary_ip, primary_ud, primary_fd (ip 0 is None)
    backup,      \* mount planner: backup_ip, backup_ud, backup_fd (ip 0 is None)
    amo,         \* mount planner: kinds of the additional mount options
    fstab_mount, \* mount planner: the fstab entry built, or NoFstab
    conf,        \* validator, builder: the configuration, as far as it was read
    sdv,         \* validator, builder: kinds of the shared data volumes iterated
    num_gluster, \* validator: local num_gluster
    vi,          \* validator: number of volumes the loop has gone through
    again,       \* validator: the call is one on the configuration that the
                 \* first call returned
    given,       \* validator, history: the corrected settings as they were given
    first,       \* validator, history: the configuration the first call returned
    vd,          \* builder: azureblob_vd, azurefile_vd, gluster_on_compute and
                 \* len(storage_cluster_mounts)
    subnet_id,   \* builder: "unset", "None" or "subnet_id"
    bopt,        \* builder: the vm size is a GPU size, gpu_env is not None, and
                 \* further settings read
    scripts,     \* builder: temporary mount scripts on disk
    uploaded,    \* builder, history: storage.upload_resource_files has returned
    start_task,  \* builder: the flags of the command line, in order
    request,     \* builder: the PoolAddParameter built, or NoRequest
    trail,       \* pool actions, history: the calls made, in order
    ap,          \* action_pool_add, _add_pool: settings and replies read
    rs,          \* action_pool_resize: settings and replies read, and locals
    old_nodes,   \* action_pool_resize: ids of the nodes cached before the resize
    rnodes,      \* action_pool_resize: local nodes, the ids batch.resize_pool returned
    new_nodes,   \* action_pool_resize: local new_nodes, a list of ip addresses
    masterip     \* action_pool_resize: local masterip, 0 before it is set

coordVars == <<fn, pc, err, args, cfg, pool, force_ssh, is_windows, nodes, idx,
               success, jobState, taskState, markers, exitOk, observed, polls,
               outcome, checked, logged, events, sshCalled>>
sshVars == <<procs, started, joined, failures, anyNonZero>>
subnetVars == <<vnet, prefix, vm_count, allowable_addresses, asked, confirmed, result>>
mountVars == <<sc, vms, mi, primary, backup, amo, fstab_mount>>
validVars == <<conf, sdv, num_gluster, vi, again, given, first>>
buildVars == <<vd, subnet_id, bopt, scripts, uploaded, start_task, request>>
actionVars == <<trail, ap, rs, old_nodes, rnodes, new_nodes, masterip>>
vars == <<coordVars, sshVars, subnetVars, mountVars, validVars, buildVars,
          actionVars>>
\* the variables the coordinator and the SSH update leave alone
nonCoordVars == <<subnetVars, mountVars, validVars, buildVars, actionVars>>
\* the variables the subnet planner leaves alone
nonSubnetVars == <<args, cfg, pool, force_ssh, is_windows, nodes, idx, success,
                   jobState, taskState, markers, exitOk, observed, polls, outcome,
                   checked, logged, events, sshCalled, sshVars, mountVars,
                   validVars, buildVars, actionVars>>
\* the variables the mount planner leaves alone
nonMountVars == <<args, cfg, pool, force_ssh, is_windows, nodes, idx, success,
                  jobState, taskState, markers, exitOk, observed, polls, outcome,
                  checked, logged, events, sshCalled, sshVars, subnetVars,
                  validVars, buildVars, actionVars>>
\* the variables the validator leaves alone
nonValidVars == <<args, cfg, pool, force_ssh, is_windows, nodes, idx, success,
                  jobState, taskState, markers, exitOk, observed, polls, outcome,
                  checked, logged, events, sshCalled, sshVars, subnetVars,
                  mountVars, buildVars, actionVars>>
\* the variables the builder leaves alone
nonBuildVars == <<args, cfg, pool, force_ssh, is_windows, nodes, idx, success,
                  jobState, taskState, markers, exitOk, observed, polls, outcome,
                  checked, logged, events, sshCalled, sshVars, subnetVars,
                  mountVars, num_gluster, vi, again, given, first, actionVars>>
\* the variables the pool actions leave alone
nonActionVars == <<args, cfg, pool, force_ssh, is_windows, nodes, idx, success,
                   jobState, taskState, markers, exitOk, observed, polls, outcome,
                   checked, logged, events, sshCalled, sshVars, subnetVars,
                   mountVars, validVars, buildVars>>

NoPool == [dedicated |-> 0, low_priority |-> 0, inter_node |-> FALSE]
NoCfg == [p2p |-> FALSE, native |-> FALSE, docker |-> FALSE, singularity |-> FALSE,
          gluster |-> FALSE, username |-> FALSE, keyfile |-> FALSE]
NoVnet == [arm_subnet_id |-> FALSE, name |-> FALSE, aad |-> FALSE,
           network_client |-> FALSE]
NoPrefix == [valid |-> FALSE, mask |-> 0]
NoCluster == [subnet_id |-> FALSE, found |-> FALSE, vnet_name |-> FALSE,
              vnet_rg |-> FALSE, vnet_subid |-> FALSE, vm_count |-> 0,
              type |-> "none"]
NoNode == [ip |-> 0, ud |-> 0, fd |-> 0]
NoFstab == [remoteip |-> 0, backup |-> 0, fstype |-> "none", mo |-> {}]
NoConf == [image |-> "none", autoscale |-> FALSE, dedicated |-> 0,
           low_priority |-> 0, use_shipyard_docker_image |-> FALSE,
           native |-> FALSE, singularity |-> FALSE, p2p |-> FALSE,
           inter_node |-> FALSE, hpn_server_swap |-> FALSE,
           transfer_files |-> FALSE, block_until |-> FALSE,
           max_tasks_per_node |-> 1, attempt_recovery |-> FALSE,
           encryption |-> FALSE, gpu_ok |-> FALSE, rdma |-> FALSE]
NoGiven == [use_shipyard_docker_image |-> FALSE, inter_node |-> FALSE,
            hpn_server_swap |-> FALSE, block_until |-> FALSE,
            attempt_recovery |-> FALSE]
NoVd == [azureblob |-> FALSE, azurefile |-> FALSE, gluster |-> FALSE, clusters |-> 0]
NoBopt == [gpu |-> FALSE, gpu_env |-> FALSE, tune_tcp |-> FALSE, prefix |-> FALSE,
           aad |-> FALSE, resize_timeout |-> FALSE]
NoRequest == [built |-> FALSE]
NoAdd == [exists |-> FALSE, native |-> FALSE, transfer_files |-> FALSE, gluster_on_compute |-> FALSE,
          nodes |-> 0, current |-> 0, target |-> 0]
NoResize == [wait |-> FALSE, dedicated |-> 0, current_dedicated |-> 0, resize_up_d |-> FALSE,
             resize_up_lp |-> FALSE, create_ssh_user |-> FALSE,
             gluster_present |-> FALSE, voltype |-> FALSE]
\* nodes argument of _setup_glusterfs: None, or a list of that many nodes
NoneArg == -1

Min(a, b) == IF a < b THEN a ELSE b

\* every variable but fn and args at its value before the first statement
Fresh ==
    /\ err = "none"
    /\ cfg = NoCfg
    /\ pool = NoPool
    /\ force_ssh = FALSE
    /\ is_windows = FALSE
    /\ nodes = 0
    /\ idx = 0
    /\ success = TRUE
    /\ jobState = "absent"
    /\ taskState = "none"
    /\ markers = {}
    /\ exitOk = FALSE
    /\ observed = "none"
    /\ polls = 0
    /\ outcome = "none"
    /\ checked = {}
    /\ logged = {}
    /\ events = <<>>
    /\ sshCalled = FALSE
    /\ procs = 0
    /\ started = 0
    /\ joined = 0
    /\ failures = FALSE
    /\ anyNonZero = FALSE
    /\ vnet = NoVnet
    /\ prefix = NoPrefix
    /\ vm_count = [dedicated |-> 0, low_priority |-> 0]
    /\ allowable_addresses = <<0, 0>>
    /\ asked = FALSE
    /\ confirmed = FALSE
    /\ result = "none"
    /\ sc = NoCluster
    /\ vms = <<>>
    /\ mi = 0
    /\ primary = NoNode
    /\ backup = NoNode
    /\ amo = {}
    /\ fstab_mount = NoFstab
    /\ conf = NoConf
    /\ sdv = <<>>
    /\ num_gluster = 0
    /\ vi = 0
    /\ again = FALSE
    /\ given = NoGiven
    /\ first = NoConf
    /\ vd = NoVd
    /\ subnet_id = "unset"
    /\ bopt = NoBopt
    /\ scripts = {}
    /\ uploaded = FALSE
    /\ start_task = <<>>
    /\ request = NoRequest
    /\ trail = <<>>
    /\ ap = NoAdd
    /\ rs = NoResize
    /\ old_nodes = {}
    /\ rnodes = {}
    /\ new_nodes = <<>>
    /\ masterip = 0

\* a call of _setup_glusterfs(nodes=...) or of _update_container_images(force_ssh=...)
Init ==
    /\ \/ /\ fn = "gluster"
          /\ pc = "g_start"
          /\ \E n \in {NoneArg} \cup (0..MaxDedicated) :
                args = [nodes |-> n, force_ssh |-> FALSE]
       \/ /\ fn = "update"
          /\ pc = "u_start"
          /\ \E f \in BOOLEAN : args = [nodes |-> NoneArg, force_ssh |-> f]
    /\ Fresh

(* ----------------------------- helpers -------------------------------- *)
Return == pc' = "returned" /\ err' = err
Raise(kind) == pc' = "raised" /\ err' = kind

\* bug: the loop is left as soon as the task is no longer active
PollDoneNotActive(state) == state # "active"

\* fleet.py:1477, 1747  batchtask.state == batchmodels.TaskState.completed
PollDone(state) == state = "completed"

\* bug: the poll loop is wrapped in a try/finally that deletes the job
ServiceErrorCleanup ==
    /\ Raise("service")
    /\ jobState' = "deleted"
    /\ events' = Append(events, "delete")

\* fleet.py:1476, 1746  task.get raises inside the poll loop: nothing catches the
\* exception, it leaves the function with the job as it is
ServiceError ==
    /\ Raise("service")
    /\ jobState' = jobState
    /\ events' = events

\* bug: the file is looked up on the first node in every iteration
MarkerPresentFirst(node) == 1 \in markers

\* fleet.py:1485-1490, 1763-1766  file.get_properties_from_compute_node on the node
\* does not raise BatchErrorException
MarkerPresent(node) == node \in markers

\* bug: no break, the loop goes on after a node without the marker file
LoopEndsNoBreak(found, node, n) == node = n

\* fleet.py:1484-1494, 1762-1771  the marker loop ends on the first node without
\* the marker file (break) and after the last node
LoopEnds(found, node, n) == ~found \/ node = n

\* number of nodes the run's verification goes through: the given node list, else
\* every node of the pool (fleet.py:1481-1482, 1761)
TargetCount ==
    IF fn = "gluster" /\ args.nodes # NoneArg
    THEN args.nodes
    ELSE pool.dedicated + pool.low_priority

\* the service runs the task of the job; when the task completes, the marker file
\* is on some of the task's nodes and the task has some exit code
TaskRun ==
    /\ taskState \in {"active", "running"}
    /\ \/ /\ taskState = "active"
          /\ taskState' = "running"
          /\ UNCHANGED <<markers, exitOk>>
       \/ /\ taskState' = "completed"
          /\ markers' \in SUBSET (1..TargetCount)
          /\ exitOk' \in BOOLEAN
    /\ UNCHANGED <<fn, pc, err, args, cfg, pool, force_ssh, is_windows, nodes, idx,
                   success, jobState, observed, polls, outcome, checked, logged,
                   events, sshCalled, sshVars>>
    /\ UNCHANGED nonCoordVars

(* ------------------------- _setup_glusterfs --------------------------- *)
\* fleet.py:1414-1427  look up the on-compute gluster volume of the configuration
GlusterStart ==
    /\ fn = "gluster" /\ pc = "g_start"
    /\ \E g \in BOOLEAN :
        /\ cfg' = [cfg EXCEPT !.gluster = g]
        /\ IF g THEN pc' = "g_prepare" /\ err' = err ELSE Raise("config")
    /\ UNCHANGED <<fn, args, pool, force_ssh, is_windows, nodes, idx, success,
                   jobState, taskState, markers, exitOk, observed, polls, outcome,
                   checked, logged, events, sshCalled, sshVars>>
    /\ UNCHANGED nonCoordVars

\* fleet.py:1428-1467  build the job and the task; pool.get gives the instance count
GlusterPrepare ==
    /\ fn = "gluster" /\ pc = "g_prepare"
    /\ \E d \in 0..MaxDedicated :
        pool' = [dedicated |-> d, low_priority |-> 0, inter_node |-> TRUE]
    /\ pc' = "g_submit"
    /\ UNCHANGED <<fn, err, args, cfg, force_ssh, is_windows, nodes, idx, success,
                   jobState, taskState, markers, exitOk, observed, polls, outcome,
                   checked, logged, events, sshCalled, sshVars>>
    /\ UNCHANGED nonCoordVars

\* fleet.py:1468-1473  batch_client.job.add, batch_client.task.add
GlusterSubmit ==
    /\ fn = "gluster" /\ pc = "g_submit"
    /\ jobState' = "present"
    /\ taskState' = "active"
    /\ events' = events \o <<"job_add", "task_add">>
    /\ pc' = "g_poll"
    /\ UNCHANGED <<fn, err, args, cfg, pool, force_ssh, is_windows, nodes, idx,
                   success, markers, exitOk, observed, polls, outcome, checked,
                   logged, sshCalled, sshVars>>
    /\ UNCHANGED nonCoordVars

\* fleet.py:1474-1479  one iteration of the poll loop: task.get returns the task's
\* state, or raises
GlusterPoll ==
    /\ fn = "gluster" /\ pc = "g_poll"
    /\ \/ /\ observed' = taskState
          /\ polls' = Min(polls + 1, MaxPolls)
          /\ IF PollDone(taskState)
             THEN /\ pc' = "g_nodes"
                  /\ events' = Append(events, "completed")
             ELSE /\ pc' = "g_poll"
                  /\ events' = events
          /\ err' = err
          /\ jobState' = jobState
       \/ /\ ServiceError
          /\ UNCHANGED <<observed, polls>>
    /\ UNCHANGED <<fn, args, cfg, pool, force_ssh, is_windows, nodes, idx, success,
                   taskState, markers, exitOk, outcome, checked, logged, sshCalled,
                   sshVars>>
    /\ UNCHANGED nonCoordVars

\* fleet.py:1480-1483  the nodes to verify: the given list, else all nodes of the pool
GlusterNodes ==
    /\ fn = "gluster" /\ pc = "g_nodes"
    /\ nodes' = TargetCount
    /\ success' = TRUE
    /\ idx' = 0
    /\ IF TargetCount = 0
       THEN pc' = "g_delete" /\ outcome' = "Verified"
       ELSE pc' = "g_check" /\ outcome' = outcome
    /\ UNCHANGED <<fn, err, args, cfg, pool, force_ssh, is_windows, jobState,
                   taskState, markers, exitOk, observed, polls, checked, logged,
                   events, sshCalled, sshVars>>
    /\ UNCHANGED nonCoordVars

\* fleet.py:1484-1494  one iteration of the marker loop, on node idx + 1
GlusterCheckMarker ==
    /\ fn = "gluster" /\ pc = "g_check"
    /\ idx < nodes
    /\ LET node == idx + 1
           found == MarkerPresent(node)
       IN
        /\ idx' = node
        /\ checked' = checked \cup {node}
        /\ events' = Append(events, "check")
        /\ logged' = IF found THEN logged ELSE logged \cup {node}
        /\ success' = IF found THEN success ELSE FALSE
        /\ IF LoopEnds(found, node, nodes)
           THEN /\ pc' = "g_delete"
                /\ outcome' = IF success' THEN "Verified" ELSE "Failed"
           ELSE /\ pc' = "g_check"
                /\ outcome' = outcome
    /\ UNCHANGED <<fn, err, args, cfg, pool, force_ssh, is_windows, nodes, jobState,
                   taskState, markers, exitOk, observed, polls, sshCalled, sshVars>>
    /\ UNCHANGED nonCoordVars

\* bug: the job is deleted on success only
GlusterDeleteJobOnSuccess ==
    /\ fn = "gluster" /\ pc = "g_delete"
    /\ jobState' = IF success THEN "deleted" ELSE jobState
    /\ events' = IF success THEN Append(events, "delete") ELSE events
    /\ pc' = "g_finish"
    /\ UNCHANGED <<fn, err, args, cfg, pool, force_ssh, is_windows, nodes, idx,
                   success, taskState, markers, exitOk, observed, polls, outcome,
                   checked, logged, sshCalled, sshVars>>
    /\ UNCHANGED nonCoordVars

\* fleet.py:1495-1496  batch_client.job.delete
GlusterDeleteJob ==
    /\ fn = "gluster" /\ pc = "g_delete"
    /\ jobState' = "deleted"
    /\ events' = Append(events, "delete")
    /\ pc' = "g_finish"
    /\ UNCHANGED <<fn, err, args, cfg, pool, force_ssh, is_windows, nodes, idx,
                   success, taskState, markers, exitOk, observed, polls, outcome,
                   checked, logged, sshCalled, sshVars>>
    /\ UNCHANGED nonCoordVars

\* fleet.py:1497-1501  raise when the verification failed
GlusterFinish ==
    /\ fn = "gluster" /\ pc = "g_finish"
    /\ IF success THEN Return ELSE Raise("coordination")
    /\ UNCHANGED <<fn, args, cfg, pool, force_ssh, is_windows, nodes, idx, success,
                   jobState, taskState, markers, exitOk, observed, polls, outcome,
                   checked, logged, events, sshCalled, sshVars>>
    /\ UNCHANGED nonCoordVars

GlusterNext ==
    \/ GlusterStart \/ GlusterPrepare \/ GlusterSubmit \/ GlusterPoll
    \/ GlusterNodes \/ GlusterCheckMarker \/ GlusterDeleteJob \/ GlusterFinish

(* -------------------- _update_container_images_over_ssh ---------------- *)
\* bug: > instead of >=
BatchFullLate(n) == n > SSHBatchCap

\* fleet.py:1540  len(procs) >= 40
BatchFull(n) == n >= SSHBatchCap

\* bug: failures = any(...), the result of an earlier batch is overwritten
AggregateLast(f, nonzero) == nonzero > 0

\* fleet.py:1544-1545, 1552-1553  if any([x != 0 for x in rcs]): failures = True
Aggregate(f, nonzero) == f \/ nonzero > 0

\* util.subprocess_wait_all(procs): every process of procs is joined; nonzero of
\* their return codes are not 0
WaitAll(nonzero) ==
    /\ joined' = joined + procs
    /\ anyNonZero' = (anyNonZero \/ nonzero > 0)
    /\ failures' = Aggregate(failures, nonzero)
    /\ procs' = 0

\* numbers of non-zero return codes tried for a batch of n processes
NonZeroCounts(n) == {0, 1, n} \cap (0..n)

\* fleet.py:1514-1529  SSH username and private key of the pool settings
SSHSettings ==
    /\ pc = "s_settings"
    /\ \E u \in BOOLEAN, k \in BOOLEAN :
        /\ cfg' = [cfg EXCEPT !.username = u, !.keyfile = k]
        /\ IF ~u THEN Raise("ssh_username")
           ELSE IF ~k THEN Raise("ssh_key")
           ELSE pc' = "s_list" /\ err' = err
    /\ UNCHANGED <<fn, args, pool, force_ssh, is_windows, nodes, idx, success,
                   jobState, taskState, markers, exitOk, observed, polls, outcome,
                   checked, logged, events, sshCalled, sshVars>>
    /\ UNCHANGED nonCoordVars

\* fleet.py:1530-1533  nodes = compute_node.list(pool.id); procs = []; failures = False
SSHListNodes ==
    /\ pc = "s_list"
    /\ nodes' = pool.dedicated + pool.low_priority
    /\ idx' = 0
    /\ procs' = 0
    /\ failures' = FALSE
    /\ pc' = "s_loop"
    /\ UNCHANGED <<fn, err, args, cfg, pool, force_ssh, is_windows, success,
                   jobState, taskState, markers, exitOk, observed, polls, outcome,
                   checked, logged, events, sshCalled, started, joined, anyNonZero>>
    /\ UNCHANGED nonCoordVars

\* fleet.py:1534-1540  start the command on the next node; a full batch is waited for
SSHStart ==
    /\ pc = "s_loop"
    /\ idx < nodes
    /\ idx' = idx + 1
    /\ procs' = procs + 1
    /\ started' = started + 1
    /\ pc' = IF BatchFull(procs') THEN "s_wait" ELSE "s_loop"
    /\ UNCHANGED <<fn, err, args, cfg, pool, force_ssh, is_windows, nodes, success,
                   jobState, taskState, markers, exitOk, observed, polls, outcome,
                   checked, logged, events, sshCalled, joined, failures, anyNonZero>>
    /\ UNCHANGED nonCoordVars

\* fleet.py:1541-1547  wait for the full batch inside the loop
SSHWaitBatch ==
    /\ pc = "s_wait"
    /\ \E nz \in NonZeroCounts(procs) : WaitAll(nz)
    /\ pc' = "s_loop"
    /\ UNCHANGED <<fn, err, args, cfg, pool, force_ssh, is_windows, nodes, idx,
                   success, jobState, taskState, markers, exitOk, observed, polls,
                   outcome, checked, logged, events, sshCalled, started>>
    /\ UNCHANGED nonCoordVars

\* fleet.py:1548-1555  after the loop, wait for the processes left
SSHWaitRest ==
    /\ pc = "s_loop"
    /\ idx = nodes
    /\ procs > 0
    /\ \E nz \in NonZeroCounts(procs) : WaitAll(nz)
    /\ pc' = "s_loop"
    /\ UNCHANGED <<fn, err, args, cfg, pool, force_ssh, is_windows, nodes, idx,
                   success, jobState, taskState, markers, exitOk, observed, polls,
                   outcome, checked, logged, events, sshCalled, started>>
    /\ UNCHANGED nonCoordVars

\* fleet.py:1556-1562  raise when a failure was recorded; the caller returns
\* (fleet.py:1688)
SSHFinish ==
    /\ pc = "s_loop"
    /\ idx = nodes
    /\ procs = 0
    /\ IF failures THEN Raise("ssh_failures") ELSE Return
    /\ UNCHANGED <<fn, args, cfg, pool, force_ssh, is_windows, nodes, idx, success,
                   jobState, taskState, markers, exitOk, observed, polls, outcome,
                   checked, logged, events, sshCalled, sshVars>>
    /\ UNCHANGED nonCoordVars

SSHNext == SSHSettings \/ SSHListNodes \/ SSHStart \/ SSHWaitBatch \/ SSHWaitRest
           \/ SSHFinish

(* ---------------------- _update_container_images ---------------------- *)
\* bug: the dedicated count is not looked at
ForceSSHNoCount(force, p) ==
    \/ force
    \/ p.low_priority > 0
    \/ ~p.inter_node

\* fleet.py:1633-1643  force ssh on some paths
ForceSSH(force, p) ==
    \/ force
    \/ p.low_priority > 0
    \/ (p.dedicated > 1 /\ ~p.inter_node)

\* fleet.py:1721, 1752  pool.current_dedicated_nodes > 1
MultiInstance(p) == p.dedicated > 1

\* fleet.py:1578-1620  peer-to-peer and native pools are refused; the images to update
UpdateStart ==
    /\ fn = "update" /\ pc = "u_start"
    /\ \E p \in BOOLEAN, n \in BOOLEAN, d \in BOOLEAN, s \in BOOLEAN :
        /\ cfg' = [cfg EXCEPT !.p2p = p, !.native = n, !.docker = d,
                              !.singularity = s]
        /\ IF p \/ n THEN Raise("config")
           ELSE IF ~d /\ ~s THEN Return
           ELSE pc' = "u_pool" /\ err' = err
    /\ UNCHANGED <<fn, args, pool, force_ssh, is_windows, nodes, idx, success,
                   jobState, taskState, markers, exitOk, observed, polls, outcome,
                   checked, logged, events, sshCalled, sshVars>>
    /\ UNCHANGED nonCoordVars

\* an empty pool that is not noticed
NoComputeNodesNever(p) == FALSE

\* fleet.py:1627-1628  the pool has no node
NoComputeNodes(p) == p.dedicated = 0 /\ p.low_priority = 0

\* fleet.py:1621-1643  pool.get; nothing to do on an empty pool; force ssh
UpdateGetPool ==
    /\ fn = "update" /\ pc = "u_pool"
    /\ \E d \in 0..MaxDedicated, l \in 0..MaxLowPriority, i \in BOOLEAN :
        pool' = [dedicated |-> d, low_priority |-> l, inter_node |-> i]
    /\ IF NoComputeNodes(pool')
       THEN Return /\ force_ssh' = args.force_ssh
       ELSE /\ force_ssh' = ForceSSH(args.force_ssh, pool')
            /\ pc' = "u_windows"
            /\ err' = err
    /\ UNCHANGED <<fn, args, cfg, is_windows, nodes, idx, success, jobState,
                   taskState, markers, exitOk, observed, polls, outcome, checked,
                   logged, events, sshCalled, sshVars>>
    /\ UNCHANGED nonCoordVars

\* fleet.py:1655-1662  windows compat checks
UpdateWindows ==
    /\ fn = "update" /\ pc = "u_windows"
    /\ \E w \in BOOLEAN :
        /\ is_windows' = w
        /\ IF w /\ (force_ssh \/ cfg.singularity) THEN Raise("config")
           ELSE pc' = "u_dispatch" /\ err' = err
    /\ UNCHANGED <<fn, args, cfg, pool, force_ssh, nodes, idx, success, jobState,
                   taskState, markers, exitOk, observed, polls, outcome, checked,
                   logged, events, sshCalled, sshVars>>
    /\ UNCHANGED nonCoordVars

\* fleet.py:1663-1706  build the command; over SSH when forced
UpdateDispatch ==
    /\ fn = "update" /\ pc = "u_dispatch"
    /\ IF force_ssh
       THEN sshCalled' = TRUE /\ pc' = "s_settings"
       ELSE sshCalled' = sshCalled /\ pc' = "u_submit"
    /\ UNCHANGED <<fn, err, args, cfg, pool, force_ssh, is_windows, nodes, idx,
                   success, jobState, taskState, markers, exitOk, observed, polls,
                   outcome, checked, logged, events, sshVars>>
    /\ UNCHANGED nonCoordVars

\* fleet.py:1707-1743  the job and its task (multi-instance on more than one node);
\* batch_client.job.add, batch_client.task.add
UpdateSubmit ==
    /\ fn = "update" /\ pc = "u_submit"
    /\ jobState' = "present"
    /\ taskState' = "active"
    /\ events' = events \o <<"job_add", "task_add">>
    /\ pc' = "u_poll"
    /\ UNCHANGED <<fn, err, args, cfg, pool, force_ssh, is_windows, nodes, idx,
                   success, markers, exitOk, observed, polls, outcome, checked,
                   logged, sshCalled, sshVars>>
    /\ UNCHANGED nonCoordVars

\* fleet.py:1744-1749  one iteration of the poll loop: task.get returns the task's
\* state, or raises
UpdatePoll ==
    /\ fn = "update" /\ pc = "u_poll"
    /\ \/ /\ observed' = taskState
          /\ polls' = Min(polls + 1, MaxPolls)
          /\ IF PollDone(taskState)
             THEN /\ pc' = "u_verify"
                  /\ events' = Append(events, "completed")
             ELSE /\ pc' = "u_poll"
                  /\ events' = events
          /\ err' = err
          /\ jobState' = jobState
       \/ /\ ServiceError
          /\ UNCHANGED <<observed, polls>>
    /\ UNCHANGED <<fn, args, cfg, pool, force_ssh, is_windows, nodes, idx, success,
                   taskState, markers, exitOk, outcome, checked, logged, sshCalled,
                   sshVars>>
    /\ UNCHANGED nonCoordVars

\* bug: the job is deleted as soon as the task has completed, before the
\* verification
UpdateVerifyDeleteFirst ==
    /\ fn = "update" /\ pc = "u_verify"
    /\ success' = TRUE
    /\ idx' = 0
    /\ IF MultiInstance(pool)
       THEN /\ nodes' = TargetCount
            /\ IF TargetCount = 0
               THEN pc' = "u_delete" /\ outcome' = "Verified"
               ELSE pc' = "u_check" /\ outcome' = outcome
       ELSE /\ nodes' = nodes
            /\ pc' = "u_exit"
            /\ outcome' = outcome
    /\ jobState' = "deleted"
    /\ events' = Append(events, "delete")
    /\ UNCHANGED <<fn, err, args, cfg, pool, force_ssh, is_windows, taskState,
                   markers, exitOk, observed, polls, checked, logged, sshCalled,
                   sshVars>>
    /\ UNCHANGED nonCoordVars

\* fleet.py:1750-1761, 1772  success = True; the marker loop on a multi-instance
\* task, the exit code otherwise
UpdateVerify ==
    /\ fn = "update" /\ pc = "u_verify"
    /\ success' = TRUE
    /\ idx' = 0
    /\ IF MultiInstance(pool)
       THEN /\ nodes' = TargetCount
            /\ IF TargetCount = 0
               THEN pc' = "u_delete" /\ outcome' = "Verified"
               ELSE pc' = "u_check" /\ outcome' = outcome
       ELSE /\ nodes' = nodes
            /\ pc' = "u_exit"
            /\ outcome' = outcome
    /\ UNCHANGED <<jobState, events>>
    /\ UNCHANGED <<fn, err, args, cfg, pool, force_ssh, is_windows, taskState,
                   markers, exitOk, observed, polls, checked, logged, sshCalled,
                   sshVars>>
    /\ UNCHANGED nonCoordVars

\* fleet.py:1762-1771  one iteration of the marker loop, on node idx + 1
UpdateCheckMarker ==
    /\ fn = "update" /\ pc = "u_check"
    /\ idx < nodes
    /\ LET node == idx + 1
           found == MarkerPresent(node)
       IN
        /\ idx' = node
        /\ checked' = checked \cup {node}
        /\ events' = Append(events, "check")
        /\ logged' = IF found THEN logged ELSE logged \cup {node}
        /\ success' = IF found THEN success ELSE FALSE
        /\ IF LoopEnds(found, node, nodes)
           THEN /\ pc' = "u_delete"
                /\ outcome' = IF success' THEN "Verified" ELSE "Failed"
           ELSE /\ pc' = "u_check"
                /\ outcome' = outcome
    /\ UNCHANGED <<fn, err, args, cfg, pool, force_ssh, is_windows, nodes, jobState,
                   taskState, markers, exitOk, observed, polls, sshCalled, sshVars>>
    /\ UNCHANGED nonCoordVars

\* a plain task that counts as succeeded whatever its exit code
TaskSucceededAlways(ok) == TRUE

\* fleet.py:1774  the task has execution info and its exit code is 0
TaskSucceeded(ok) == ok

\* fleet.py:1772-1779  plain task: execution info and exit code of the task
UpdateCheckExit ==
    /\ fn = "update" /\ pc = "u_exit"
    /\ success' = TaskSucceeded(exitOk)
    /\ outcome' = IF success' THEN "Verified" ELSE "Failed"
    /\ pc' = "u_delete"
    /\ UNCHANGED <<fn, err, args, cfg, pool, force_ssh, is_windows, nodes, idx,
                   jobState, taskState, markers, exitOk, observed, polls, checked,
                   logged, events, sshCalled, sshVars>>
    /\ UNCHANGED nonCoordVars

\* fleet.py:1780-1781  batch_client.job.delete
UpdateDeleteJob ==
    /\ fn = "update" /\ pc = "u_delete"
    /\ jobState' = "deleted"
    /\ events' = Append(events, "delete")
    /\ pc' = "u_finish"
    /\ UNCHANGED <<fn, err, args, cfg, pool, force_ssh, is_windows, nodes, idx,
                   success, taskState, markers, exitOk, observed, polls, outcome,
                   checked, logged, sshCalled, sshVars>>
    /\ UNCHANGED nonCoordVars

\* fleet.py:1782-1786  raise when the verification failed
UpdateFinish ==
    /\ fn = "update" /\ pc = "u_finish"
    /\ IF success THEN Return ELSE Raise("coordination")
    /\ UNCHANGED <<fn, args, cfg, pool, force_ssh, is_windows, nodes, idx, success,
                   jobState, taskState, markers, exitOk, observed, polls, outcome,
                   checked, logged, events, sshCalled, sshVars>>
    /\ UNCHANGED nonCoordVars

UpdateNext ==
    \/ UpdateStart \/ UpdateGetPool \/ UpdateWindows \/ UpdateDispatch
    \/ UpdateSubmit \/ UpdatePoll \/ UpdateVerify \/ UpdateCheckMarker
    \/ UpdateCheckExit \/ UpdateDeleteJob \/ UpdateFinish

(* --------- _pool_virtual_network_subnet_address_space_check ----------- *)
\* Python integers do not overflow; a number is kept as <<high, low>> with value
\* high * 2^16 + low and 0 <= low < 2^16 whenever high > 0 (low alone carries a
\* small or negative number).
Limb == 2 ^ 16

\* fleet.py:779  1 << n
ShiftLeftOne(n) == IF n >= 16 THEN <<2 ^ (n - 16), 0>> ELSE <<0, 2 ^ n>>

\* fleet.py:779  v - k for a small k
BigMinus(v, k) ==
    IF v[1] = 0 \/ v[2] >= k
    THEN <<v[1], v[2] - k>>
    ELSE <<v[1] - 1, v[2] + Limb - k>>

\* bug: 4 addresses are reserved instead of 5
AllowableAddressesMinusFour(mask) == BigMinus(ShiftLeftOne(AddressBits - mask), 4)

\* fleet.py:778-779  allowable_addresses = (1 << (32 - mask)) - 5
AllowableAddresses(mask) == BigMinus(ShiftLeftOne(AddressBits - mask), 5)

\* fleet.py:786  allowable_addresses < pool_total_vm_count (a count below 2^16)
TooSmall(v, n) == v[1] = 0 /\ v[2] < n

\* the tolerance band without the truncation of int()
WithinToleranceExact(v, n) == v[1] = 0 /\ v[2] * 9 <= n * 10

\* fleet.py:791  int(allowable_addresses * 0.9) <= pool_total_vm_count, reached
\* with allowable_addresses >= pool_total_vm_count >= 0; int(a * 0.9) is the
\* integer part of 9a/10 for the floats of this range, and is above every count
\* below 2^16 * 9 / 10 when the high limb is set
WithinTolerance(v, n) == v[1] = 0 /\ (v[2] * 9) \div 10 <= n

\* fleet.py:782-785  pool_total_vm_count
PoolTotalVmCount(c) == c.dedicated + c.low_priority

\* the test of the virtual network name alone
NoVirtualNetworkName(sid, name) == ~name

\* fleet.py:728-729  neither arm_subnet_id nor a virtual network name is given
NoVirtualNetwork(sid, name) == ~sid /\ ~name

\* fleet.py:728-736  no virtual network asked for: None; AAD credentials are needed
SubnetStart ==
    /\ fn = "subnet" /\ pc = "n_start"
    /\ \E sid \in BOOLEAN, name \in BOOLEAN, aad \in BOOLEAN :
        /\ vnet' = [vnet EXCEPT !.arm_subnet_id = sid, !.name = name, !.aad = aad]
        /\ IF NoVirtualNetwork(sid, name) THEN Return /\ result' = "None"
           ELSE IF ~aad THEN Raise("network") /\ result' = result
           ELSE pc' = "n_subnet" /\ err' = err /\ result' = result
    /\ UNCHANGED <<fn, prefix, vm_count, allowable_addresses, asked, confirmed>>
    /\ UNCHANGED nonSubnetVars

\* fleet.py:737-770  the subnet of the given id (returned unchecked without a
\* network client), else the subnet created with the virtual network, which takes
\* a network client
SubnetGet ==
    /\ fn = "subnet" /\ pc = "n_subnet"
    /\ \E nc \in IF vnet.arm_subnet_id THEN BOOLEAN ELSE {TRUE} :
        /\ vnet' = [vnet EXCEPT !.network_client = nc]
        /\ IF vnet.arm_subnet_id /\ ~nc
           THEN Return /\ result' = "subnet_id" /\ prefix' = prefix
           ELSE /\ \/ prefix' = [valid |-> FALSE, mask |-> 0]
                   \/ \E m \in 0..AddressBits : prefix' = [valid |-> TRUE, mask |-> m]
                /\ pc' = "n_check" /\ err' = err /\ result' = result
    /\ UNCHANGED <<fn, vm_count, allowable_addresses, asked, confirmed>>
    /\ UNCHANGED nonSubnetVars

\* fleet.py:771-802  the address space of the subnet against the node count
SubnetCheck ==
    /\ fn = "subnet" /\ pc = "n_check"
    /\ IF ~prefix.valid
       THEN /\ Raise("network")
            /\ UNCHANGED <<vm_count, allowable_addresses, asked, confirmed, result>>
       ELSE /\ allowable_addresses' = AllowableAddresses(prefix.mask)
            /\ \E d \in 0..MaxDedicated, l \in 0..MaxLowPriority :
                  vm_count' = [dedicated |-> d, low_priority |-> l]
            /\ LET total == PoolTotalVmCount(vm_count') IN
                IF TooSmall(allowable_addresses', total)
                THEN /\ Raise("network")
                     /\ UNCHANGED <<asked, confirmed, result>>
                ELSE IF WithinTolerance(allowable_addresses', total)
                THEN /\ asked' = TRUE
                     /\ confirmed' \in BOOLEAN
                     /\ IF confirmed'
                        THEN Return /\ result' = "subnet_id"
                        ELSE Raise("rejected") /\ result' = result
                ELSE /\ Return
                     /\ result' = "subnet_id"
                     /\ UNCHANGED <<asked, confirmed>>
    /\ UNCHANGED <<fn, vnet, prefix>>
    /\ UNCHANGED nonSubnetVars

SubnetNext == SubnetStart \/ SubnetGet \/ SubnetCheck

\* a call of _pool_virtual_network_subnet_address_space_check
SubnetInit ==
    /\ fn = "subnet"
    /\ pc = "n_start"
    /\ args = [nodes |-> NoneArg, force_ssh |-> FALSE]
    /\ Fresh

SubnetSpec == SubnetInit /\ [][SubnetNext]_vars

(* --------------- _create_storage_cluster_mount_args -------------------- *)
\* what a user-supplied mount option may start with or be
OptionKinds == {"nfsvers=", "port=", "transport=", "backupvolfile-server=", "other"}
FileServerTypes == {"nfs", "glusterfs", "other"}
Domains == 0..MaxDomain

\* fleet.py:579-581  the private ip (the position of the node, 1 for the first)
\* and the update and fault domain of a queried node
Node(i, ud, fd) == [ip |-> i, ud |-> ud, fd |-> fd]

\* fleet.py:587-588  the node cannot serve as backup in the first pass
Overlaps(p, backup_ip, ud, fd) == p.ip = backup_ip \/ p.ud = ud \/ p.fd = fd

\* a second pass that looks at the fault domain
SecondPassPicksFaultDomain(p, ud, fd) == p.fd # fd

\* fleet.py:600  the second pass takes a node of another update domain
SecondPassPicks(p, ud, fd) == p.ud # ud

\* fleet.py:475-517, 636-639  the checks of the subnet, of the cluster's virtual
\* network and of vm_count, and the choice of the file server type
MountChecks ==
    /\ fn = "mount" /\ pc = "m_start"
    /\ \E c \in [subnet_id : BOOLEAN, found : BOOLEAN, vnet_name : BOOLEAN,
                 vnet_rg : BOOLEAN, vnet_subid : BOOLEAN,
                 vm_count : 0..MaxClusterVms, type : FileServerTypes] :
        /\ sc' = c
        /\ IF \/ ~c.subnet_id \/ ~c.found \/ ~c.vnet_name \/ ~c.vnet_rg
              \/ ~c.vnet_subid \/ c.vm_count < 1
           THEN Raise("mount")
           ELSE IF c.type = "nfs" THEN pc' = "m_nfs" /\ err' = err
           ELSE IF c.type = "glusterfs" THEN pc' = "m_first" /\ err' = err
           ELSE Raise("notimplemented")
    /\ UNCHANGED <<fn, vms, mi, primary, backup, amo, fstab_mount>>
    /\ UNCHANGED nonMountVars

\* an NFS check that forgets the port
NfsOptionsRejectedNoPort(o) == "nfsvers=" \in o

\* fleet.py:538-545  user options an NFS mount refuses
NfsOptionsRejected(o) == "nfsvers=" \in o \/ "port=" \in o

\* fleet.py:617-624  user options a GlusterFS mount refuses
GlusterOptionsRejected(o) == "backupvolfile-server=" \in o \/ "transport=" \in o

\* fleet.py:519-556, 640-650  NFS: the first node's ip and the mount options
MountNfs ==
    /\ fn = "mount" /\ pc = "m_nfs"
    /\ \E o \in SUBSET OptionKinds :
        /\ amo' = o
        /\ IF NfsOptionsRejected(o)
           THEN Raise("mount") /\ fstab_mount' = fstab_mount
           ELSE /\ fstab_mount' = [remoteip |-> 1, backup |-> 0,
                                   fstype |-> "nfs", mo |-> o]
                /\ Return
    /\ UNCHANGED <<fn, sc, vms, mi, primary, backup>>
    /\ UNCHANGED nonMountVars

\* fleet.py:567-594  one iteration of the first pass over the cluster nodes
MountFirstPass ==
    /\ fn = "mount" /\ pc = "m_first"
    /\ \E ud \in Domains, fd \in Domains :
        LET i == mi + 1
            p == IF primary.ip = 0 THEN Node(i, ud, fd) ELSE primary
            b == IF backup.ip = 0 /\ ~Overlaps(p, backup.ip, ud, fd)
                 THEN Node(i, ud, fd) ELSE backup
        IN  /\ vms' = Append(vms, [fd |-> fd, ud |-> ud])
            /\ primary' = p
            /\ backup' = b
            /\ IF i < sc.vm_count THEN mi' = i /\ pc' = "m_first"
               ELSE /\ mi' = 0
                    /\ pc' = IF b.ip = 0 THEN "m_second" ELSE "m_select"
    /\ err' = err
    /\ UNCHANGED <<fn, sc, amo, fstab_mount>>
    /\ UNCHANGED nonMountVars

\* fleet.py:595-604  one iteration of the second pass
MountSecondPass ==
    /\ fn = "mount" /\ pc = "m_second"
    /\ LET i == mi + 1 IN
        IF SecondPassPicks(primary, vms[i].ud, vms[i].fd)
        THEN /\ backup' = Node(i, vms[i].ud, vms[i].fd)
             /\ pc' = "m_select"
             /\ mi' = mi
        ELSE /\ backup' = backup
             /\ mi' = i
             /\ pc' = IF i < sc.vm_count THEN "m_second" ELSE "m_select"
    /\ err' = err
    /\ UNCHANGED <<fn, sc, vms, primary, amo, fstab_mount>>
    /\ UNCHANGED nonMountVars

\* fleet.py:605-650  GlusterFS: both servers are needed; the mount options
MountSelect ==
    /\ fn = "mount" /\ pc = "m_select"
    /\ IF primary.ip = 0 \/ backup.ip = 0
       THEN Raise("no_backup") /\ UNCHANGED <<amo, fstab_mount>>
       ELSE \E o \in SUBSET OptionKinds :
            /\ amo' = o
            /\ IF GlusterOptionsRejected(o)
               THEN Raise("mount") /\ fstab_mount' = fstab_mount
               ELSE /\ fstab_mount' = [remoteip |-> primary.ip, backup |-> backup.ip,
                                       fstype |-> "glusterfs", mo |-> o]
                    /\ Return
    /\ UNCHANGED <<fn, sc, vms, mi, primary, backup>>
    /\ UNCHANGED nonMountVars

MountNext == MountChecks \/ MountNfs \/ MountFirstPass \/ MountSecondPass \/ MountSelect

\* a call of _create_storage_cluster_mount_args
MountInit ==
    /\ fn = "mount"
    /\ pc = "m_start"
    /\ args = [nodes |-> NoneArg, force_ssh |-> FALSE]
    /\ Fresh

MountSpec == MountInit /\ [][MountNext]_vars

(* ----------------- _adjust_settings_for_pool_creation -------------------- *)
\* the vm configurations told apart: platform images by publisher, offer and sku,
\* custom images by the node agent, and "both" for a specification giving both
Images == {"ubuntu1604", "ubuntu1404", "centos-hpc", "windows2016", "oracle",
           "custom_linux", "custom_windows", "both"}
\* the kinds of shared data volumes; a GlusterFS on compute volume has a type
VolumeKinds == {"gluster_replica", "gluster_distributed", "storage_cluster",
                "azure_blob", "azure_file", "unknown"}

\* fleet.py:1905  pool_custom_image_node_agent is not empty
HasNodeAgent(i) == i \in {"custom_linux", "custom_windows", "both"}
\* fleet.py:1904  pool_sku is not empty
HasSku(i) == i \notin {"custom_linux", "custom_windows"}
\* fleet.py:1910  settings.is_windows_pool
IsWindows(i) == i \in {"windows2016", "custom_windows"}
\* fleet.py:1913-1945  the publisher/offer/sku allow-list
AllowedImage(i) == i \in {"ubuntu1604", "ubuntu1404", "centos-hpc", "windows2016"}
\* fleet.py:1914-1922  only canonical/ubuntuserver 16.04 clears the requirement
ContainerRequired(i) == i # "ubuntu1604"
\* fleet.py:1957  offer == 'centos-hpc' or offer == 'sles-hpc'
IsHpcOffer(i) == i = "centos-hpc"
\* fleet.py:2000  publisher != 'canonical' and offer != 'ubuntuserver'
NotUbuntu(i) == i \notin {"ubuntu1604", "ubuntu1404"}
\* fleet.py:2075-2085  ubuntuserver from 16.04-lts on, or a centos offer
BlobMountable(i) == i \in {"ubuntu1604", "centos-hpc"}
IsGluster(k) == k \in {"gluster_replica", "gluster_distributed"}

\* fleet.py:1992-1996  the value of inter_node_communication_enabled after the
\* peer-to-peer block: set to True under the condition that it is enabled
InterNodeAfterP2P(inter) == IF inter THEN TRUE ELSE inter

\* a GlusterFS check that lets a single dedicated node through
GlusterRejectedBelowOne(c) ==
    \/ IsWindows(c.image) \/ c.autoscale \/ ~c.inter_node
    \/ c.low_priority > 0 \/ c.dedicated < 1 \/ c.max_tasks_per_node > 1

\* fleet.py:2028-2054  a GlusterFS on compute volume is refused
GlusterRejected(c) ==
    \/ IsWindows(c.image) \/ c.autoscale \/ ~c.inter_node
    \/ c.low_priority > 0 \/ c.dedicated <= 1 \/ c.max_tasks_per_node > 1

\* a limit of two GlusterFS on compute volumes
TooManyGlusterAboveTwo(n) == n > 2

\* fleet.py:2086  num_gluster > 1
TooManyGluster(n) == n > 1

\* a check that lets a single dedicated node through
MixedWithInterNodeAboveOne(c) == c.inter_node /\ c.dedicated > 1 /\ c.low_priority > 0

\* fleet.py:2016-2017  inter-node communication on a pool of both kinds of nodes
MixedWithInterNode(c) == c.inter_node /\ c.dedicated > 0 /\ c.low_priority > 0

\* a correction that leaves custom images alone
ForcedDockerImagePlatformOnly(use, i) ==
    IF ~use /\ ContainerRequired(i) /\ ~HasNodeAgent(i) THEN TRUE ELSE use

\* fleet.py:1965-1967  use_shipyard_docker_image after the correction
ForcedDockerImage(use, i) ==
    IF ~use /\ (ContainerRequired(i) \/ HasNodeAgent(i)) THEN TRUE ELSE use

\* fleet.py:1999-2004  hpn_server_swap after the correction
HpnAfterCheck(hpn, i) ==
    IF hpn /\ (NotUbuntu(i) \/ HasNodeAgent(i)) THEN FALSE ELSE hpn

\* a correction that flips the setting whenever files are transferred
BlockUntilFlipped(transfer, block) == IF transfer THEN ~block ELSE block

\* fleet.py:2008-2013  block_until_all_global_resources_loaded after the correction
BlockUntil(transfer, block) == IF transfer /\ block THEN FALSE ELSE block

\* fleet.py:2110-2115  attempt_recovery_on_unusable after the correction
RecoveryAfterCheck(recovery, i) == IF recovery /\ HasNodeAgent(i) THEN FALSE ELSE recovery

\* the values a setting of the configuration can have when the call reads it:
\* any of S in a call on a configuration as given, and the value the first call
\* left in a call on the configuration it returned
Read(field, S) == IF again THEN {conf[field]} ELSE S

\* fleet.py:1901-1962  the pool settings; platform and custom image together, an
\* unsupported vm configuration, an HPC offer without RDMA
ValidateImage ==
    /\ fn = "validate" /\ pc = "v_start"
    /\ \E i \in Read("image", Images), as \in Read("autoscale", BOOLEAN),
          d \in Read("dedicated", 0..MaxTargetDedicated),
          l \in Read("low_priority", 0..MaxTargetLowPriority) :
        \E gpu_ok \in Read("gpu_ok", IF AllowedImage(i) THEN BOOLEAN ELSE {FALSE}),
           rdma \in Read("rdma", IF IsHpcOffer(i) THEN BOOLEAN ELSE {FALSE}) :
        /\ conf' = [conf EXCEPT !.image = i, !.autoscale = as, !.dedicated = d,
                                !.low_priority = l, !.gpu_ok = gpu_ok,
                                !.rdma = rdma]
        /\ IF HasNodeAgent(i) /\ HasSku(i) THEN Raise("config")
           ELSE LET allowed == AllowedImage(i) /\ gpu_ok IN
                IF ~allowed /\ ~HasNodeAgent(i) THEN Raise("config")
                ELSE IF ~IsWindows(i) /\ IsHpcOffer(i) /\ ~rdma THEN Raise("config")
                ELSE pc' = "v_docker" /\ err' = err
    /\ UNCHANGED <<fn, sdv, num_gluster, vi, again, given, first>>
    /\ UNCHANGED nonValidVars

\* fleet.py:1963-1984  the shipyard container requirement; Singularity images on
\* a native pool
ValidateDocker ==
    /\ fn = "validate" /\ pc = "v_docker"
    /\ \E use \in Read("use_shipyard_docker_image", BOOLEAN),
          native \in Read("native", BOOLEAN) :
        \E images \in Read("singularity", IF native THEN BOOLEAN ELSE {FALSE}) :
        /\ conf' = [conf EXCEPT
              !.use_shipyard_docker_image = ForcedDockerImage(use, conf.image),
              !.native = native, !.singularity = images]
        /\ given' = IF again THEN given
                    ELSE [given EXCEPT !.use_shipyard_docker_image = use]
        /\ IF native /\ images THEN Raise("config")
           ELSE pc' = "v_p2p" /\ err' = err
    /\ UNCHANGED <<fn, sdv, num_gluster, vi, again, first>>
    /\ UNCHANGED nonValidVars

\* fleet.py:1985-1996  peer-to-peer against native pools and autoscale, and
\* inter-node communication
ValidateP2P ==
    /\ fn = "validate" /\ pc = "v_p2p"
    /\ \E p2p \in Read("p2p", BOOLEAN), inter \in Read("inter_node", BOOLEAN) :
        /\ conf' = [conf EXCEPT !.p2p = p2p,
                      !.inter_node = IF p2p /\ ~conf.native /\ ~conf.autoscale
                                     THEN InterNodeAfterP2P(inter) ELSE inter]
        /\ given' = IF again THEN given ELSE [given EXCEPT !.inter_node = inter]
        /\ IF p2p /\ (conf.native \/ conf.autoscale) THEN Raise("config")
           ELSE pc' = "v_flags" /\ err' = err
    /\ UNCHANGED <<fn, sdv, num_gluster, vi, again, first>>
    /\ UNCHANGED nonValidVars

\* fleet.py:1997-2021  HPN SSH swap, block until all global resources loaded,
\* inter-node communication on a pool of dedicated and low priority nodes
ValidateFlags ==
    /\ fn = "validate" /\ pc = "v_flags"
    /\ \E hpn \in Read("hpn_server_swap", BOOLEAN),
          transfer \in Read("transfer_files", BOOLEAN),
          block \in Read("block_until", BOOLEAN) :
        /\ conf' = [conf EXCEPT
              !.hpn_server_swap = HpnAfterCheck(hpn, conf.image),
              !.transfer_files = transfer,
              !.block_until = BlockUntil(transfer, block)]
        /\ given' = IF again THEN given
                    ELSE [given EXCEPT !.hpn_server_swap = hpn,
                                       !.block_until = block]
    /\ IF MixedWithInterNode(conf)
       THEN Raise("config")
       ELSE pc' = "v_volumes" /\ err' = err
    /\ UNCHANGED <<fn, sdv, num_gluster, vi, again, first>>
    /\ UNCHANGED nonValidVars

\* fleet.py:2026-2085  one iteration of the loop over the shared data volumes
ValidateVolume ==
    /\ fn = "validate" /\ pc = "v_volumes"
    /\ IF again THEN vi < Len(sdv) ELSE vi < MaxVolumes
    /\ \E k \in IF again THEN {sdv[vi + 1]} ELSE VolumeKinds :
        /\ sdv' = IF again THEN sdv ELSE Append(sdv, k)
        /\ vi' = vi + 1
        /\ IF IsGluster(k)
           THEN \E m \in Read("max_tasks_per_node",
                              IF num_gluster = 0 THEN 1..MaxTasksPerNode
                              ELSE {conf.max_tasks_per_node}) :
                /\ conf' = [conf EXCEPT !.max_tasks_per_node = m]
                /\ IF GlusterRejected(conf')
                   THEN Raise("config") /\ num_gluster' = num_gluster
                   ELSE /\ num_gluster' = num_gluster + 1
                        /\ IF k # "gluster_replica" THEN Raise("config")
                           ELSE pc' = pc /\ err' = err
           ELSE /\ UNCHANGED <<conf, num_gluster>>
                /\ IF k = "storage_cluster"
                   THEN IF IsWindows(conf.image) THEN Raise("config")
                        ELSE pc' = pc /\ err' = err
                   ELSE IF k = "azure_blob"
                   THEN IF \/ IsWindows(conf.image) \/ conf.native
                           \/ ~BlobMountable(conf.image)
                        THEN Raise("config")
                        ELSE pc' = pc /\ err' = err
                   ELSE pc' = pc /\ err' = err
    /\ UNCHANGED <<fn, again, given, first>>
    /\ UNCHANGED nonValidVars

\* fleet.py:2086-2089  the loop is over: more than one GlusterFS on compute volume
ValidateVolumesEnd ==
    /\ fn = "validate" /\ pc = "v_volumes"
    /\ again => vi = Len(sdv)
    /\ IF TooManyGluster(num_gluster) THEN Raise("config")
       ELSE pc' = "v_final" /\ err' = err
    /\ UNCHANGED <<fn, conf, sdv, num_gluster, vi, again, given, first>>
    /\ UNCHANGED nonValidVars

\* fleet.py:2092-2118  the checks of a Windows pool, and attempt recovery on
\* unusable with a custom image
ValidateFinal ==
    /\ fn = "validate" /\ pc = "v_final"
    /\ LET win == IsWindows(conf.image) IN
       \E images \in Read("singularity",
                          IF conf.native \/ ~win THEN {conf.singularity} ELSE BOOLEAN),
          recovery \in Read("attempt_recovery", BOOLEAN),
          encryption \in Read("encryption", IF win THEN BOOLEAN ELSE {FALSE}) :
        IF win /\ conf.transfer_files
        THEN Raise("config") /\ conf' = conf /\ given' = given
        ELSE IF win /\ images
        THEN /\ Raise("config")
             /\ conf' = [conf EXCEPT !.singularity = images]
             /\ given' = given
        ELSE /\ conf' = [conf EXCEPT
                    !.singularity = images,
                    !.attempt_recovery = RecoveryAfterCheck(recovery, conf.image),
                    !.encryption = encryption]
             /\ given' = IF again THEN given
                         ELSE [given EXCEPT !.attempt_recovery = recovery]
             /\ IF win /\ encryption THEN Raise("config") ELSE Return
    /\ UNCHANGED <<fn, sdv, num_gluster, vi, again, first>>
    /\ UNCHANGED nonValidVars

ValidateNext ==
    \/ ValidateImage \/ ValidateDocker \/ ValidateP2P \/ ValidateFlags
    \/ ValidateVolume \/ ValidateVolumesEnd \/ ValidateFinal

\* a call of _adjust_settings_for_pool_creation
ValidateInit ==
    /\ fn = "validate"
    /\ pc = "v_start"
    /\ args = [nodes |-> NoneArg, force_ssh |-> FALSE]
    /\ Fresh

ValidateSpec == ValidateInit /\ [][ValidateNext]_vars

\* fleet.py:1895-1900  another call, on the configuration the first call returned
ValidateAgain ==
    /\ fn = "validate" /\ pc = "returned" /\ ~again
    /\ again' = TRUE
    /\ first' = conf
    /\ pc' = "v_start"
    /\ num_gluster' = 0
    /\ vi' = 0
    /\ UNCHANGED <<fn, err, conf, sdv, given>>
    /\ UNCHANGED nonValidVars

RevalidateNext == ValidateNext \/ ValidateAgain

RevalidateSpec == ValidateInit /\ [][RevalidateNext]_vars

(* ------------------------ _construct_pool_object ------------------------ *)
\* the optional parts of the command line, named by the letter of their flag:
\* a azure file mount, b block until images are loaded, c azure blob mount,
\* d shipyard docker image, e encryption thumbprint, f GlusterFS on compute,
\* g GPU driver and type, m storage cluster mount arguments, n TCP tuning, o offer,
\* p storage entity prefix, s sku, t torrent (peer-to-peer) flags, v version,
\* w HPN SSH swap, x blobxfer version

\* a default format string with the blob mount flag ahead of the file mount flag
DefaultTemplateBlobFirst ==
    <<"c", "a", "b", "d", "e", "f", "g", "m", "n", "o", "p", "s", "t", "v", "w", "x">>

\* fleet.py:1072  '{npf}{a}{b}{c}{d}{e}{f}{g}{m}{n}{o}{p}{s}{t}{v}{w}{x}'
DefaultTemplate ==
    <<"a", "b", "c", "d", "e", "f", "g", "m", "n", "o", "p", "s", "t", "v", "w", "x">>
\* fleet.py:1004  '{npf}{a}{b}{c}{e}{f}{m}{n}{p}{t}{v}{x}'
CustomTemplate == <<"a", "b", "c", "e", "f", "m", "n", "p", "t", "v", "x">>
\* fleet.py:1038  '{npf}{a}{e}{v}{x}'
WindowsTemplate == <<"a", "e", "v", "x">>
\* fleet.py:1048  '{npf}{a}{c}{e}{f}{m}{n}{v}{x}'
NativeTemplate == <<"a", "c", "e", "f", "m", "n", "v", "x">>

\* fleet.py:1006-1019, 1074-1092  the parts whose format argument is not ''
Emitted(c, v, o) ==
    {"o", "s", "t", "v", "x"}
    \cup (IF v.azurefile THEN {"a"} ELSE {})
    \cup (IF c.block_until THEN {"b"} ELSE {})
    \cup (IF v.azureblob THEN {"c"} ELSE {})
    \cup (IF c.use_shipyard_docker_image THEN {"d"} ELSE {})
    \cup (IF c.encryption THEN {"e"} ELSE {})
    \cup (IF v.gluster THEN {"f"} ELSE {})
    \cup (IF o.gpu_env THEN {"g"} ELSE {})
    \cup (IF v.clusters > 0 THEN {"m"} ELSE {})
    \cup (IF o.tune_tcp THEN {"n"} ELSE {})
    \cup (IF o.prefix THEN {"p"} ELSE {})
    \cup (IF c.hpn_server_swap THEN {"w"} ELSE {})

\* str.format: the parts of the format string, in its order, that are emitted
CommandLine(template, emitted) ==
    LET Keep(f) == f \in emitted IN SelectSeq(template, Keep)

\* the vm configurations the builder tells apart: platform or custom image,
\* Linux or Windows
BuildImages == {"ubuntu1604", "windows2016", "custom_linux", "custom_windows"}
\* the builder does not read the type of a GlusterFS on compute volume
BuildVolumeKinds == VolumeKinds \ {"gluster_distributed"}

\* target counts and resize timeout handed over whatever autoscale says
TargetAlways(asenable, n) == n

\* fleet.py:1125-1131  ... if not asenable else None
Target(asenable, n) == IF ~asenable THEN n ELSE NoneArg

\* fleet.py:835-853  one iteration of the scan of the shared data volumes
BuildVolume ==
    /\ fn = "build" /\ pc = "b_volumes"
    /\ Len(sdv) < MaxVolumes
    /\ \E k \in BuildVolumeKinds :
        /\ sdv' = Append(sdv, k)
        /\ IF k = "azure_file"
           THEN vd' = [vd EXCEPT !.azurefile = TRUE] /\ pc' = pc /\ err' = err
           ELSE IF k = "azure_blob"
           THEN vd' = [vd EXCEPT !.azureblob = TRUE] /\ pc' = pc /\ err' = err
           ELSE IF IsGluster(k)
           THEN IF vd.gluster THEN Raise("config") /\ vd' = vd
                ELSE vd' = [vd EXCEPT !.gluster = TRUE] /\ pc' = pc /\ err' = err
           ELSE IF k = "storage_cluster"
           THEN /\ vd' = [vd EXCEPT !.clusters = vd.clusters + 1]
                /\ pc' = pc /\ err' = err
           ELSE Raise("config") /\ vd' = vd
    /\ UNCHANGED <<fn, conf, subnet_id, bopt, scripts, uploaded, start_task, request>>
    /\ UNCHANGED nonBuildVars

\* fleet.py:854-886  after the scan: pool settings, autoscale settings, and the
\* subnet planner, which returns None or a subnet id, or raises
BuildSettings ==
    /\ fn = "build" /\ pc = "b_volumes"
    /\ \E i \in BuildImages, native \in BOOLEAN, as \in BOOLEAN,
          r \in {"None", "subnet_id", "raise"} :
        /\ conf' = [conf EXCEPT !.image = i, !.native = native, !.autoscale = as]
        /\ IF r = "raise" THEN Raise("network") /\ subnet_id' = subnet_id
           ELSE subnet_id' = r /\ pc' = "b_mounts" /\ err' = err
    /\ UNCHANGED <<fn, sdv, vd, bopt, scripts, uploaded, start_task, request>>
    /\ UNCHANGED nonBuildVars

\* fleet.py:887-899  the mount arguments of the storage clusters; the mount planner
\* raises without a subnet id, and may raise with one
BuildClusterMounts ==
    /\ fn = "build" /\ pc = "b_mounts"
    /\ \E ok \in IF vd.clusters = 0 THEN {TRUE}
                 ELSE IF subnet_id = "subnet_id" THEN BOOLEAN ELSE {FALSE} :
        IF ok THEN pc' = "b_rflist" /\ err' = err ELSE Raise("mount")
    /\ UNCHANGED <<fn, conf, sdv, buildVars>>
    /\ UNCHANGED nonBuildVars

\* fleet.py:900-950  encryption certificate, block list, shipyard and data
\* replication settings, the list of resource files
BuildResourceList ==
    /\ fn = "build" /\ pc = "b_rflist"
    /\ \E encrypt \in BOOLEAN, block \in BOOLEAN, use \in BOOLEAN, hpn \in BOOLEAN :
        conf' = [conf EXCEPT !.encryption = encrypt, !.block_until = block,
                             !.use_shipyard_docker_image = use,
                             !.hpn_server_swap = hpn]
    /\ pc' = "b_blob" /\ err' = err
    /\ UNCHANGED <<fn, sdv, buildVars>>
    /\ UNCHANGED nonBuildVars

\* fleet.py:952-954  the azure blob mount script is generated, or the generation
\* raises
BuildBlobMount ==
    /\ fn = "build" /\ pc = "b_blob"
    /\ IF vd.azureblob
       THEN \E ok \in BOOLEAN :
            IF ok THEN /\ scripts' = scripts \cup {"azureblob-mount"}
                       /\ pc' = "b_file" /\ err' = err
            ELSE Raise("mount_script") /\ scripts' = scripts
       ELSE pc' = "b_file" /\ err' = err /\ scripts' = scripts
    /\ UNCHANGED <<fn, conf, sdv, vd, subnet_id, bopt, uploaded, start_task, request>>
    /\ UNCHANGED nonBuildVars

\* the azure file mount script generated after an upload of the resource files
BuildFileMountAfterUpload ==
    /\ fn = "build" /\ pc = "b_file"
    /\ uploaded' = TRUE
    /\ IF vd.azurefile
       THEN \E ok \in BOOLEAN :
            IF ok THEN /\ scripts' = scripts \cup {"azurefile-mount"}
                       /\ pc' = "b_gpu" /\ err' = err
            ELSE Raise("mount_script") /\ scripts' = scripts
       ELSE pc' = "b_gpu" /\ err' = err /\ scripts' = scripts
    /\ UNCHANGED <<fn, conf, sdv, vd, subnet_id, bopt, start_task, request>>
    /\ UNCHANGED nonBuildVars

\* fleet.py:955-959  the azure file mount script is generated, or the generation
\* raises
BuildFileMount ==
    /\ fn = "build" /\ pc = "b_file"
    /\ IF vd.azurefile
       THEN \E ok \in BOOLEAN :
            IF ok THEN /\ scripts' = scripts \cup {"azurefile-mount"}
                       /\ pc' = "b_gpu" /\ err' = err
            ELSE Raise("mount_script") /\ scripts' = scripts
       ELSE pc' = "b_gpu" /\ err' = err /\ scripts' = scripts
    /\ UNCHANGED <<fn, conf, sdv, vd, subnet_id, bopt, uploaded, start_task, request>>
    /\ UNCHANGED nonBuildVars

\* a driver set up for native pools only
NeedsGpuDriverNative(native, gpu, i) == native /\ gpu /\ ~HasNodeAgent(i)

\* fleet.py:961-962  the pool gets a GPU driver and a gpu_env
NeedsGpuDriver(native, gpu, i) == ~native /\ gpu /\ ~HasNodeAgent(i)

\* fleet.py:960-975  the GPU driver (is_gpu_pool is not evaluated for a native
\* pool): _setup_nvidia_driver_package raises when the
\* license is not agreed to or the download does not match
BuildGpu ==
    /\ fn = "build" /\ pc = "b_gpu"
    /\ \E gpu \in IF conf.native THEN {FALSE} ELSE BOOLEAN :
        \E driver \in IF gpu THEN BOOLEAN ELSE {FALSE} :
        IF NeedsGpuDriver(conf.native, gpu, conf.image)
        THEN \E ok \in IF driver THEN {TRUE} ELSE BOOLEAN :
             /\ bopt' = [bopt EXCEPT !.gpu = gpu, !.gpu_env = ok]
             /\ IF ok THEN pc' = "b_vmconfig" /\ err' = err ELSE Raise("driver")
        ELSE /\ bopt' = [bopt EXCEPT !.gpu = gpu, !.gpu_env = FALSE]
             /\ pc' = "b_vmconfig" /\ err' = err
    /\ UNCHANGED <<fn, conf, sdv, vd, subnet_id, scripts, uploaded, start_task, request>>
    /\ UNCHANGED nonBuildVars

\* fleet.py:976-1094  the vm configuration (a custom image needs AAD credentials,
\* a platform image a node agent sku) and the command line of the start task
BuildVmConfig ==
    /\ fn = "build" /\ pc = "b_vmconfig"
    /\ \E ok \in BOOLEAN, tcp \in BOOLEAN, pre \in BOOLEAN :
        LET custom == HasNodeAgent(conf.image)
            o == [bopt EXCEPT !.aad = custom /\ ok, !.tune_tcp = tcp, !.prefix = pre]
            template == IF custom THEN CustomTemplate
                        ELSE IF conf.native /\ IsWindows(conf.image)
                        THEN WindowsTemplate
                        ELSE IF conf.native THEN NativeTemplate
                        ELSE DefaultTemplate
        IN  IF ~ok
            THEN /\ Raise(IF custom THEN "aad" ELSE "image")
                 /\ UNCHANGED <<bopt, start_task>>
            ELSE /\ bopt' = o
                 /\ start_task' = CommandLine(template, Emitted(conf, vd, o))
                 /\ pc' = "b_upload" /\ err' = err
    /\ UNCHANGED <<fn, conf, sdv, vd, subnet_id, scripts, uploaded, request>>
    /\ UNCHANGED nonBuildVars

\* fleet.py:1095-1097  the upload of the resource files returns or raises
BuildUpload ==
    /\ fn = "build" /\ pc = "b_upload"
    /\ \E ok \in BOOLEAN :
        IF ok THEN uploaded' = TRUE /\ pc' = "b_unlink" /\ err' = err
        ELSE Raise("upload") /\ uploaded' = uploaded
    /\ UNCHANGED <<fn, conf, sdv, vd, subnet_id, bopt, scripts, start_task, request>>
    /\ UNCHANGED nonBuildVars

\* fleet.py:1098-1109  the temporary mount scripts are removed
BuildUnlink ==
    /\ fn = "build" /\ pc = "b_unlink"
    /\ scripts' = (scripts \ (IF vd.azureblob THEN {"azureblob-mount"} ELSE {}))
                    \ (IF vd.azurefile THEN {"azurefile-mount"} ELSE {})
    /\ pc' = "b_input" /\ err' = err
    /\ UNCHANGED <<fn, conf, sdv, vd, subnet_id, bopt, uploaded, start_task, request>>
    /\ UNCHANGED nonBuildVars

\* fleet.py:1110-1119  data.process_input_data returns or raises
BuildInputData ==
    /\ fn = "build" /\ pc = "b_input"
    /\ \E ok \in BOOLEAN :
        IF ok THEN pc' = "b_request" /\ err' = err ELSE Raise("input_data")
    /\ UNCHANGED <<fn, conf, sdv, buildVars>>
    /\ UNCHANGED nonBuildVars

\* a formula and an interval handed over whether or not autoscale is enabled
AutoscaleSettingAlways(asenable) == TRUE

\* fleet.py:861-871  asformula and asei are set for an autoscale-enabled pool
\* and None otherwise
AutoscaleSetting(asenable) == asenable

\* fleet.py:1120-1254  the PoolAddParameter (the conditional expressions read the
\* counts only when autoscale is not enabled); the calls that fill its start task
\* (credential encryption, docker login settings) return or raise
BuildRequest ==
    /\ fn = "build" /\ pc = "b_request"
    /\ \E ok \in BOOLEAN, rt \in BOOLEAN,
          d \in IF conf.autoscale THEN {conf.dedicated} ELSE 0..MaxTargetDedicated,
          l \in IF conf.autoscale THEN {conf.low_priority}
                ELSE 0..MaxTargetLowPriority :
        IF ok
        THEN /\ conf' = [conf EXCEPT !.dedicated = d, !.low_priority = l]
             /\ bopt' = [bopt EXCEPT !.resize_timeout = rt]
             /\ request' =
                   [built |-> TRUE,
                    target_dedicated_nodes |-> Target(conf.autoscale, d),
                    target_low_priority_nodes |-> Target(conf.autoscale, l),
                    resize_timeout |->
                        Target(conf.autoscale, IF rt THEN 1 ELSE NoneArg),
                    enable_auto_scale |-> conf.autoscale,
                    auto_scale_formula |-> AutoscaleSetting(conf.autoscale),
                    auto_scale_evaluation_interval |->
                        AutoscaleSetting(conf.autoscale),
                    gluster_on_compute |-> vd.gluster,
                    command_line |-> start_task,
                    resource_files |-> uploaded,
                    subnet_id |-> subnet_id]
             /\ Return
        ELSE Raise("assembly") /\ UNCHANGED <<conf, bopt, request>>
    /\ UNCHANGED <<fn, sdv, vd, subnet_id, scripts, uploaded, start_task>>
    /\ UNCHANGED nonBuildVars

BuildNext ==
    \/ BuildVolume \/ BuildSettings \/ BuildClusterMounts \/ BuildResourceList
    \/ BuildBlobMount \/ BuildFileMount \/ BuildGpu \/ BuildVmConfig
    \/ BuildUpload \/ BuildUnlink \/ BuildInputData \/ BuildRequest

\* a call of _construct_pool_object
BuildInit ==
    /\ fn = "build"
    /\ pc = "b_volumes"
    /\ args = [nodes |-> NoneArg, force_ssh |-> FALSE]
    /\ Fresh

BuildSpec == BuildInit /\ [][BuildNext]_vars

\* a call of the validator or of the builder
PoolInit == ValidateInit \/ BuildInit
PoolNext == ValidateNext \/ BuildNext
PoolSpec == PoolInit /\ [][PoolNext]_vars

(* -------------------------- action_pool_resize -------------------------- *)
\* the ids of the compute nodes
NodeIds == 1..MaxPoolNodes
\* node.ip_address of the node with that id
IpAddress(n) == 10 + n

\* a list of new nodes that holds every node returned
NewNodesAll(returned, old) == returned

\* fleet.py:2730-2732  node.id not in old_nodes
NewNodes(returned, old) == returned \ old

\* the ip addresses of the nodes of S, in the order of the list returned
RECURSIVE IpList(_)
IpList(S) ==
    IF S = {} THEN <<>>
    ELSE LET n == CHOOSE x \in S : \A y \in S : x <= y
         IN  <<IpAddress(n)>> \o IpList(S \ {n})

\* a check against the count the pool had before the resize
UnexpectedCurrentBefore(dedicated, before, now) == dedicated # before

\* fleet.py:2722  pool.vm_count.dedicated != _pool.current_dedicated_nodes
UnexpectedCurrent(dedicated, before, now) == dedicated # now

\* fleet.py:2636-2652  the pool as it is, and the direction of the resize
ResizeStart ==
    /\ fn = "resize" /\ pc = "r_start"
    /\ \E w \in BOOLEAN, d \in 0..MaxPoolNodes, l \in 0..MaxTargetLowPriority,
          cd \in 0..MaxPoolNodes, cl \in 0..MaxTargetLowPriority :
        \E steady \in IF d = cd /\ l = cl THEN BOOLEAN ELSE {FALSE} :
        /\ rs' = [rs EXCEPT !.wait = w, !.dedicated = d, !.current_dedicated = cd,
                            !.resize_up_d = d > cd, !.resize_up_lp = l > cl]
        /\ IF steady THEN Return ELSE pc' = "r_ssh" /\ err' = err
    /\ trail' = Append(trail, "pool.get")
    /\ UNCHANGED <<fn, ap, old_nodes, rnodes, new_nodes, masterip>>
    /\ UNCHANGED nonActionVars

\* fleet.py:2653-2674  an ssh user is created on the new nodes when a user name
\* is configured, no public key is, and the generated public key is on disk
ResizeSshKey ==
    /\ fn = "resize" /\ pc = "r_ssh"
    /\ \E create \in IF rs.resize_up_d \/ rs.resize_up_lp THEN BOOLEAN ELSE {FALSE} :
        rs' = [rs EXCEPT !.create_ssh_user = create]
    /\ pc' = "r_gluster" /\ err' = err
    /\ UNCHANGED <<fn, trail, ap, old_nodes, rnodes, new_nodes, masterip>>
    /\ UNCHANGED nonActionVars

\* fleet.py:2675-2697  a GlusterFS on compute volume: no resize up of low priority
\* nodes, and wait is forced
ResizeGluster ==
    /\ fn = "resize" /\ pc = "r_gluster"
    /\ \E g \in BOOLEAN :
        \E vt \in IF g THEN BOOLEAN ELSE {FALSE} :
        /\ rs' = [rs EXCEPT !.gluster_present = g, !.voltype = vt,
                            !.wait = IF g /\ ~rs.resize_up_lp THEN TRUE ELSE @]
        /\ IF g /\ rs.resize_up_lp THEN Raise("resize")
           ELSE pc' = "r_cache" /\ err' = err
    /\ UNCHANGED <<fn, trail, ap, old_nodes, rnodes, new_nodes, masterip>>
    /\ UNCHANGED nonActionVars

\* fleet.py:2698-2702  the nodes of the pool before the resize
ResizeCache ==
    /\ fn = "resize" /\ pc = "r_cache"
    /\ IF rs.gluster_present \/ rs.create_ssh_user
       THEN /\ \E S \in SUBSET NodeIds : old_nodes' = S
            /\ trail' = Append(trail, "compute_node.list")
       ELSE UNCHANGED <<old_nodes, trail>>
    /\ pc' = "r_resize" /\ err' = err
    /\ UNCHANGED <<fn, ap, rs, rnodes, new_nodes, masterip>>
    /\ UNCHANGED nonActionVars

\* fleet.py:2703-2704  batch.resize_pool returns the nodes of the pool when it
\* waited and None when it did not, or raises
ResizePool ==
    /\ fn = "resize" /\ pc = "r_resize"
    /\ trail' = Append(trail, "resize_pool")
    /\ \E ok \in BOOLEAN :
        IF ok
        THEN /\ \E S \in IF rs.wait THEN SUBSET NodeIds ELSE {{}} : rnodes' = S
             /\ pc' = "r_user" /\ err' = err
        ELSE Raise("service") /\ rnodes' = rnodes
    /\ UNCHANGED <<fn, ap, rs, old_nodes, new_nodes, masterip>>
    /\ UNCHANGED nonActionVars

\* fleet.py:2705-2717  the ssh user on the new nodes
ResizeSshUser ==
    /\ fn = "resize" /\ pc = "r_user"
    /\ IF rs.create_ssh_user /\ (rs.resize_up_d \/ rs.resize_up_lp) /\ rs.wait
       THEN /\ trail' = Append(trail, "add_ssh_user")
            /\ \E ok \in BOOLEAN :
                IF ok THEN pc' = "r_brick" /\ err' = err ELSE Raise("ssh")
       ELSE trail' = trail /\ pc' = "r_brick" /\ err' = err
    /\ UNCHANGED <<fn, ap, rs, old_nodes, rnodes, new_nodes, masterip>>
    /\ UNCHANGED nonActionVars

\* fleet.py:2718-2745  the bricks of the new nodes: the current dedicated count
\* has to be the configured one; the new nodes and the master ip (next() of an
\* empty iterator raises StopIteration, the dict gives its values in an order
\* the code does not fix); voltype.lower() of None raises AttributeError;
\* _setup_glusterfs returns or raises
ResizeBrick ==
    /\ fn = "resize" /\ pc = "r_brick"
    /\ IF rs.gluster_present /\ rs.resize_up_d
       THEN \E now \in 0..MaxPoolNodes :
            /\ rs' = [rs EXCEPT !.current_dedicated = now]
            /\ IF UnexpectedCurrent(rs.dedicated, rs.current_dedicated, now)
               THEN /\ Raise("resize")
                    /\ trail' = Append(trail, "pool.get")
                    /\ UNCHANGED <<new_nodes, masterip>>
               ELSE /\ new_nodes' = IpList(NewNodes(rnodes, old_nodes))
                    /\ IF old_nodes = {}
                       THEN /\ Raise("stopiteration")
                            /\ trail' = Append(trail, "pool.get")
                            /\ masterip' = masterip
                       ELSE /\ \E m \in old_nodes : masterip' = IpAddress(m)
                            /\ IF ~rs.voltype
                               THEN /\ Raise("attribute")
                                    /\ trail' = Append(trail, "pool.get")
                               ELSE /\ trail' = trail \o <<"pool.get",
                                                           "_setup_glusterfs">>
                                    /\ \E ok \in BOOLEAN :
                                        IF ok THEN Return ELSE Raise("gluster")
       ELSE Return /\ UNCHANGED <<trail, rs, new_nodes, masterip>>
    /\ UNCHANGED <<fn, ap, old_nodes, rnodes>>
    /\ UNCHANGED nonActionVars

ResizeNext ==
    \/ ResizeStart \/ ResizeSshKey \/ ResizeGluster \/ ResizeCache
    \/ ResizePool \/ ResizeSshUser \/ ResizeBrick

\* a call of action_pool_resize
ResizeInit ==
    /\ fn = "resize"
    /\ pc = "r_start"
    /\ args = [nodes |-> NoneArg, force_ssh |-> FALSE]
    /\ Fresh

ResizeSpec == ResizeInit /\ [][ResizeNext]_vars

(* ---------------------- action_pool_add, _add_pool ---------------------- *)
\* the variables action_pool_add leaves alone
nonAddVars == <<args, cfg, pool, force_ssh, is_windows, nodes, idx, success,
                jobState, taskState, markers, exitOk, observed, polls, outcome,
                checked, logged, events, sshCalled, sshVars, subnetVars,
                mountVars, sdv, num_gluster, vi, again, first, vd, subnet_id,
                bopt, scripts, start_task, rs, old_nodes, rnodes, new_nodes,
                masterip>>

\* an existence check that finds no pool
PoolExistsNever(reply) == FALSE

\* fleet.py:2561  batch_client.pool.exists(...)
PoolExists(reply) == reply = "exists"

\* a call that returns, or raises an exception of that kind
Call(name, next, kind) ==
    /\ trail' = Append(trail, name)
    /\ \E ok \in BOOLEAN : IF ok THEN pc' = next /\ err' = err ELSE Raise(kind)

\* fleet.py:2559-2564  first the check that the pool does not exist
AddExists ==
    /\ fn = "add" /\ pc = "a_start"
    /\ trail' = Append(trail, "pool.exists")
    /\ \E reply \in {"exists", "absent", "error"} :
        /\ ap' = [ap EXCEPT !.exists = reply = "exists"]
        /\ IF reply = "error" THEN Raise("service")
           ELSE IF PoolExists(reply) THEN Raise("exists")
           ELSE pc' = "a_adjust" /\ err' = err
    /\ UNCHANGED <<fn, conf, given, uploaded, request>>
    /\ UNCHANGED nonAddVars

\* fleet.py:2565  the validator (the Validate actions, of which the image
\* checks and the container requirement are kept here) changes the
\* configuration and returns, or raises ValueError
AddAdjust ==
    /\ fn = "add" /\ pc = "a_adjust"
    /\ trail' = Append(trail, "_adjust_settings_for_pool_creation")
    /\ \E i \in Images, use \in BOOLEAN :
        /\ given' = [given EXCEPT !.use_shipyard_docker_image = use]
        /\ \E ok \in IF (HasNodeAgent(i) /\ HasSku(i))
                         \/ (~AllowedImage(i) /\ ~HasNodeAgent(i))
                      THEN {FALSE} ELSE BOOLEAN :
            IF ok
            THEN /\ conf' = [conf EXCEPT !.image = i,
                           !.use_shipyard_docker_image = ForcedDockerImage(use, i)]
                 /\ pc' = "a_create" /\ err' = err
            ELSE /\ conf' = [conf EXCEPT !.image = i,
                                         !.use_shipyard_docker_image = use]
                 /\ Raise("config")
    /\ UNCHANGED <<fn, ap, uploaded, request>>
    /\ UNCHANGED nonAddVars

\* fleet.py:2566  storage.create_storage_containers
AddCreateContainers ==
    /\ fn = "add" /\ pc = "a_create"
    /\ Call("create_storage_containers", "a_clear", "storage")
    /\ UNCHANGED <<fn, ap, conf, given, uploaded, request>>
    /\ UNCHANGED nonAddVars

\* fleet.py:2567  storage.clear_storage_containers
AddClearContainers ==
    /\ fn = "add" /\ pc = "a_clear"
    /\ Call("clear_storage_containers", "a_populate", "storage")
    /\ UNCHANGED <<fn, ap, conf, given, uploaded, request>>
    /\ UNCHANGED nonAddVars

\* fleet.py:2568-2570  the global resource blobs, unless the pool is native
AddPopulate ==
    /\ fn = "add" /\ pc = "a_populate"
    /\ \E native \in BOOLEAN :
        /\ ap' = [ap EXCEPT !.native = native]
        /\ IF native THEN trail' = trail /\ pc' = "a_build" /\ err' = err
           ELSE Call("populate_global_resource_blobs", "a_build", "storage")
    /\ UNCHANGED <<fn, conf, given, uploaded, request>>
    /\ UNCHANGED nonAddVars

\* fleet.py:1330-1334  _add_pool: the builder (the Build actions) uploads the
\* resource files and returns the pool settings, gluster_on_compute and the
\* request, or raises, before or after the upload
AddConstruct ==
    /\ fn = "add" /\ pc = "a_build"
    /\ trail' = Append(trail, "_construct_pool_object")
    /\ \E ok \in BOOLEAN :
        IF ok
        THEN /\ \E g \in BOOLEAN, t \in BOOLEAN :
                  ap' = [ap EXCEPT !.gluster_on_compute = g, !.transfer_files = t]
             /\ uploaded' = TRUE
             /\ request' = [built |-> TRUE]
             /\ pc' = "a_ingress" /\ err' = err
        ELSE /\ \E u \in BOOLEAN : uploaded' = u
             /\ Raise("build")
             /\ UNCHANGED <<ap, request>>
    /\ UNCHANGED <<fn, conf, given>>
    /\ UNCHANGED nonAddVars

\* fleet.py:1335-1340  data ingress to storage
AddIngress ==
    /\ fn = "add" /\ pc = "a_ingress"
    /\ IF ap.transfer_files THEN Call("ingress_data", "a_pool", "ingress")
       ELSE trail' = trail /\ pc' = "a_pool" /\ err' = err
    /\ UNCHANGED <<fn, ap, conf, given, uploaded, request>>
    /\ UNCHANGED nonAddVars

\* fleet.py:1341-1357  the pool is created; no node although some are targeted
AddCreatePool ==
    /\ fn = "add" /\ pc = "a_pool"
    /\ trail' = Append(trail, "create_pool")
    /\ \E ok \in BOOLEAN :
        IF ~ok THEN Raise("service") /\ ap' = ap
        ELSE \E n \in 0..MaxPoolNodes, c \in 0..MaxPoolNodes, t \in 0..MaxPoolNodes :
             /\ ap' = [ap EXCEPT !.nodes = n, !.current = c, !.target = t]
             /\ IF n = 0 /\ t > 0 THEN Raise("allocation")
                ELSE pc' = "a_gluster" /\ err' = err
    /\ UNCHANGED <<fn, conf, given, uploaded, request>>
    /\ UNCHANGED nonAddVars

\* fleet.py:1358-1362  GlusterFS on compute is set up on a pool that has nodes
AddGluster ==
    /\ fn = "add" /\ pc = "a_gluster"
    /\ IF ap.gluster_on_compute /\ ap.current > 0
       THEN Call("_setup_glusterfs", "a_users", "gluster")
       ELSE trail' = trail /\ pc' = "a_users" /\ err' = err
    /\ UNCHANGED <<fn, ap, conf, given, uploaded, request>>
    /\ UNCHANGED nonAddVars

\* fleet.py:1363-1395  the users of the nodes (exceptions are logged, and the
\* ingress to the shared file system is skipped when the ssh user failed), data
\* ingress, and the wait for the storage ingress
AddUsers ==
    /\ fn = "add" /\ pc = "a_users"
    /\ IF ap.current > 0
       THEN \E ssh \in BOOLEAN :
            IF ssh /\ ap.transfer_files
            THEN /\ trail' = trail \o <<"add_rdp_user", "add_ssh_user", "ingress_data">>
                 /\ \E ok \in BOOLEAN : IF ok THEN Return ELSE Raise("ingress")
            ELSE /\ trail' = trail \o <<"add_rdp_user", "add_ssh_user">>
                 /\ Return
       ELSE trail' = trail /\ Return
    /\ UNCHANGED <<fn, ap, conf, given, uploaded, request>>
    /\ UNCHANGED nonAddVars

AddNext ==
    \/ AddExists \/ AddAdjust \/ AddCreateContainers \/ AddClearContainers
    \/ AddPopulate \/ AddConstruct \/ AddIngress \/ AddCreatePool \/ AddGluster
    \/ AddUsers

\* a call of action_pool_add
AddInit ==
    /\ fn = "add"
    /\ pc = "a_start"
    /\ args = [nodes |-> NoneArg, force_ssh |-> FALSE]
    /\ Fresh

AddSpec == AddInit /\ [][AddNext]_vars

Next == GlusterNext \/ UpdateNext \/ SSHNext \/ TaskRun

Spec == Init /\ [][Next]_vars

\* the program goes on running: every step of the three functions is taken when it
\* stays possible; the service owes the task no progress
LiveSpec == Spec /\ WF_vars(GlusterNext \/ UpdateNext \/ SSHNext)

(* ------------------------------ claims -------------------------------- *)
Terminated == pc \in {"returned", "raised"}
\* the run verifies marker files (multi-instance task)
MarkerRun == fn = "gluster" \/ MultiInstance(pool)
Targets == 1..nodes
Missing == Targets \ markers

C2_MarkerVerdict ==
    (MarkerRun /\ outcome # "none") =>
        /\ Missing = {} => (outcome = "Verified" /\ logged = {} /\ err = "none")
        /\ \A n \in Targets :
              Missing = {n} => (outcome = "Failed" /\ logged = {n})

C2_Witness ==
    /\ MarkerRun /\ nodes = MaxDedicated
    /\ Missing = {2}
    /\ outcome = "Failed" /\ logged = {2}
    /\ pc = "raised"

\* C3 as stated: a Failed marker run has looked at every node of the target set and
\* logged every node without the marker file.
C3_AllNodesChecked ==
    (MarkerRun /\ outcome = "Failed") => (checked = Targets /\ logged = Missing)

\* C3 amended: the marker loop stops at the first node without the marker file:
\* a Failed marker run has looked at the nodes up to that node and no further, and
\* has logged that node alone.
C3_StopsAtFirstMissing ==
    (MarkerRun /\ outcome = "Failed") =>
        \E n \in Missing :
            /\ \A m \in Missing : n <= m
            /\ checked = 1..n
            /\ logged = {n}

C3_Witness ==
    /\ MarkerRun /\ outcome = "Failed"
    /\ checked # Targets
    /\ logged # Missing

\* C4: the service calls of a run come in the order job add, task add, poll that
\* sees the task completed, marker lookups, job delete; a marker is looked up only
\* after a poll returned the state completed, and nothing follows the delete.
C4_EventOrder ==
    /\ \A i \in 1..Len(events) :
          /\ i = 1 => events[i] = "job_add"
          /\ i = 2 => events[i] = "task_add"
          /\ i = 3 => events[i] = "completed"
          /\ i > 3 => events[i] \in {"check", "delete"}
          /\ i > 4 => events[i - 1] = "check"
    /\ checked # {} => (observed = "completed" /\ taskState = "completed")
    /\ jobState = "deleted" =>
          (Len(events) > 3 /\ events[Len(events)] = "delete" /\ outcome # "none")
    /\ (jobState = "deleted" /\ MarkerRun /\ outcome = "Verified") => checked = Targets

C4_Witness ==
    /\ Len(events) = 3 + MaxDedicated + 1
    /\ events[Len(events)] = "delete"
    /\ events[4] = "check"

\* C5: a step leaves the poll loop without an error only on a task seen completed;
\* while the task has not completed nothing is verified and the job is not deleted,
\* however many polls were made; once the task has completed, a polling run goes
\* on to delete the job unless the service raises.
C5_PollLoop ==
    /\ [][(pc \in {"g_poll", "u_poll"} /\ pc' \notin {"g_poll", "u_poll", "raised"})
            => (taskState = "completed" /\ observed' = "completed")]_vars
    /\ [](taskState # "completed" =>
            (outcome = "none" /\ checked = {} /\ jobState # "deleted"))
    /\ ((pc \in {"g_poll", "u_poll"} /\ taskState = "completed")
            ~> (jobState = "deleted" \/ err = "service"))

C5_Witness ==
    /\ pc \in {"g_poll", "u_poll"}
    /\ polls = MaxPolls
    /\ taskState # "completed"
    /\ jobState = "present"

\* C6: an exception of the service in the poll loop leaves the function at once:
\* nothing was verified, no delete was issued and the job is still there.
C6_PollErrorNoCleanup ==
    err = "service" =>
        /\ pc = "raised"
        /\ jobState = "present"
        /\ outcome = "none"
        /\ \A i \in 1..Len(events) : events[i] # "delete"

C6_Witness ==
    /\ err = "service" /\ pc = "raised"
    /\ jobState = "present" /\ polls > 0

\* C7: at most 40 processes are started and not yet joined, len(procs) counts
\* them, and the processes outstanding all belong to one batch: every process
\* started before the batch has been joined.
C7_BatchBound ==
    /\ started - joined <= SSHBatchCap
    /\ procs = started - joined
    /\ procs > 0 => joined % SSHBatchCap = 0
    /\ joined <= started /\ started <= nodes

C7_Witness ==
    /\ started > SSHBatchCap
    /\ procs > 0
    /\ joined = SSHBatchCap

Dispatched ==
    /\ fn = "update"
    /\ pool.dedicated + pool.low_priority >= 1
    /\ pc \notin {"u_start", "u_pool", "u_windows", "u_dispatch", "u_submit"}

\* C9 as stated (on Linux pools): low-priority nodes, inter-node communication
\* disabled or forced SSH give the SSH path and no job; anything else gives a job.
C9_SSHWheneverNoInterNode ==
    (Dispatched /\ ~is_windows) =>
        IF pool.low_priority > 0 \/ ~pool.inter_node \/ args.force_ssh
        THEN sshCalled /\ jobState = "absent"
        ELSE jobState # "absent" /\ ~sshCalled

\* C9 amended: no job is submitted when the pool has low-priority nodes, or more
\* than one dedicated node and inter-node communication disabled, or SSH was
\* forced: a Linux pool then takes the SSH path and a Windows pool fails.
\* Otherwise a job is submitted and SSH is not used, except on a Windows pool with
\* Singularity images, which fails.
C9_PathChoice ==
    Dispatched =>
        IF \/ pool.low_priority > 0
           \/ (pool.dedicated > 1 /\ ~pool.inter_node)
           \/ args.force_ssh
        THEN /\ jobState = "absent"
             /\ sshCalled = ~is_windows
             /\ is_windows => (pc = "raised" /\ err = "config")
        ELSE IF is_windows /\ cfg.singularity
        THEN pc = "raised" /\ err = "config" /\ jobState = "absent" /\ ~sshCalled
        ELSE jobState # "absent" /\ ~sshCalled

C9_Witness ==
    /\ Dispatched
    /\ pool = [dedicated |-> 1, low_priority |-> 0, inter_node |-> FALSE]
    /\ ~args.force_ssh
    /\ jobState = "present" /\ ~sshCalled

\* the planner went through the address-space check of a subnet with a valid prefix
AddressChecked == fn = "subnet" /\ Terminated /\ prefix.valid

\* C10: for a mask m in 0..30, allowable_addresses + 5 = 2^(32 - m), and the
\* planner raises, returning no subnet id, whenever allowable_addresses is below
\* the dedicated plus low-priority count.
C10_AllowableAddresses ==
    (AddressChecked /\ prefix.mask \in 0..30) =>
        LET e == AddressBits - prefix.mask
            v == allowable_addresses
            low == (v[2] + 5) % (2 ^ 16)
            high == v[1] + ((v[2] + 5) \div (2 ^ 16))
            total == vm_count.dedicated + vm_count.low_priority
        IN  /\ IF e <= 30
               THEN high * (2 ^ 16) + low = 2 ^ e
               ELSE low = 0 /\ high = 2 ^ (e - 16)
            /\ (e <= 30 /\ 2 ^ e - 5 < total) =>
                  (pc = "raised" /\ err = "network" /\ result = "none" /\ ~asked)

C10_Witness ==
    /\ AddressChecked
    /\ prefix.mask = 29
    /\ allowable_addresses = <<0, 3>>
    /\ vm_count = [dedicated |-> 3, low_priority |-> 1]
    /\ pc = "raised" /\ err = "network"

\* the planner compared the address space of a valid prefix with the node count
\* and found it large enough
Compared ==
    /\ AddressChecked
    /\ ~TooSmall(allowable_addresses, PoolTotalVmCount(vm_count))

\* C11 as stated: with allowable_addresses >= target count, confirmation is asked
\* exactly when target count >= 0.9 * allowable_addresses.
C11_AskAtNineTenths ==
    Compared =>
        (asked <=> /\ allowable_addresses[1] = 0
                   /\ 10 * PoolTotalVmCount(vm_count) >= 9 * allowable_addresses[2])

\* C11 amended: with allowable_addresses >= target count, confirmation is asked
\* exactly when target count >= the integer part of 0.9 * allowable_addresses,
\* that is when 9 * allowable_addresses < 10 * (target count + 1); a target equal
\* to allowable_addresses is asked about, a target above it is a hard failure
\* without a question; without the question the plan returns the subnet id, with
\* it the plan returns the id on a yes and fails on a no.
C11_AskAtTruncatedNineTenths ==
    LET total == PoolTotalVmCount(vm_count)
        v == allowable_addresses
    IN  /\ Compared =>
              /\ asked <=> (v[1] = 0 /\ 9 * v[2] < 10 * (total + 1))
              /\ (v[1] = 0 /\ v[2] = total) => asked
              /\ ~asked => (pc = "returned" /\ result = "subnet_id")
              /\ (asked /\ confirmed) => (pc = "returned" /\ result = "subnet_id")
              /\ (asked /\ ~confirmed) =>
                    (pc = "raised" /\ err = "rejected" /\ result = "none")
        /\ (AddressChecked /\ ~Compared) =>
              (~asked /\ pc = "raised" /\ err = "network" /\ result = "none")

C11_Witness ==
    /\ Compared
    /\ allowable_addresses = <<0, 11>>
    /\ PoolTotalVmCount(vm_count) = 9
    /\ asked /\ ~confirmed
    /\ pc = "raised" /\ err = "rejected"

\* the address-space check has passed: a valid prefix, enough addresses, and a yes
\* to the question if it was asked
CheckPassed == Compared /\ (asked => confirmed)

\* C20 as stated: None without any check when neither a subnet id nor a virtual
\* network name is given; otherwise a failure without AAD credentials; a subnet id
\* is returned only after the address-space check has passed.
C20_IdOnlyAfterCheck ==
    (fn = "subnet" /\ Terminated) =>
        /\ (~vnet.arm_subnet_id /\ ~vnet.name) =>
              (pc = "returned" /\ result = "None" /\ prefix = NoPrefix /\ ~asked)
        /\ ((vnet.arm_subnet_id \/ vnet.name) /\ ~vnet.aad) =>
              (pc = "raised" /\ err = "network" /\ result = "none")
        /\ result = "subnet_id" => CheckPassed

\* C20 amended: None, without any check, exactly when neither a subnet id nor a
\* virtual network name is given; otherwise a failure without AAD credentials; a
\* subnet id is returned after the address-space check has passed, or, unchecked,
\* when an existing subnet id is given and there is no network client.
C20_IdAfterCheckOrNoClient ==
    (fn = "subnet" /\ Terminated) =>
        /\ (~vnet.arm_subnet_id /\ ~vnet.name) =>
              (pc = "returned" /\ result = "None" /\ prefix = NoPrefix /\ ~asked)
        /\ result = "None" => (~vnet.arm_subnet_id /\ ~vnet.name)
        /\ ((vnet.arm_subnet_id \/ vnet.name) /\ ~vnet.aad) =>
              (pc = "raised" /\ err = "network" /\ result = "none")
        /\ result = "subnet_id" =>
              /\ pc = "returned" /\ vnet.aad
              /\ IF vnet.arm_subnet_id /\ ~vnet.network_client
                 THEN prefix = NoPrefix /\ ~asked
                 ELSE CheckPassed
        /\ (vnet.aad /\ vnet.arm_subnet_id /\ ~vnet.network_client) =>
              result = "subnet_id"

C20_Witness ==
    /\ fn = "subnet" /\ pc = "returned"
    /\ result = "subnet_id"
    /\ vnet.arm_subnet_id /\ ~vnet.network_client
    /\ ~prefix.valid

\* a GlusterFS mount plan that went through the selection of the two servers
Selected ==
    /\ fn = "mount" /\ Terminated
    /\ sc.type = "glusterfs" /\ Len(vms) = sc.vm_count /\ Len(vms) > 0
\* nodes whose update domain differs from the first node's, and those whose fault
\* domain differs as well
OtherUd == {i \in 1..Len(vms) : vms[i].ud # vms[1].ud}
OtherBoth == {i \in OtherUd : vms[i].fd # vms[1].fd}
First(S) == CHOOSE i \in S : \A j \in S : i <= j

\* C19: the primary is the first cluster node; the backup has an update domain
\* other than the primary's: it is the first node whose fault and update domain
\* both differ, else the first node whose update domain differs (for the (fd, ud)
\* pairs (0,0),(0,1),(1,0) the node with (0,1)); with no node of another update
\* domain the mount plan fails, and only then does the selection fail.
C19_BackupSelection ==
    Selected =>
        /\ primary = Node(1, vms[1].ud, vms[1].fd)
        /\ OtherUd = {} <=> (pc = "raised" /\ err = "no_backup")
        /\ OtherUd # {} =>
              /\ backup.ud # primary.ud
              /\ backup.ip = IF OtherBoth # {} THEN First(OtherBoth) ELSE First(OtherUd)
              /\ backup.ud = vms[backup.ip].ud /\ backup.fd = vms[backup.ip].fd
              /\ pc = "returned" =>
                    (fstab_mount.remoteip = 1 /\ fstab_mount.backup = backup.ip)
        /\ vms = <<[fd |-> 0, ud |-> 0], [fd |-> 0, ud |-> 1], [fd |-> 1, ud |-> 0]>>
              => backup.ip = 2

C19_Witness ==
    /\ Selected /\ pc = "returned"
    /\ vms = <<[fd |-> 0, ud |-> 0], [fd |-> 0, ud |-> 1], [fd |-> 1, ud |-> 0]>>
    /\ backup = Node(2, 1, 0)
    /\ fstab_mount.backup = 2

\* validation succeeded
Accepted == fn = "validate" /\ pc = "returned"
\* the validator came upon a GlusterFS on compute volume
DeclaresGluster == \E i \in 1..Len(sdv) : IsGluster(sdv[i])

\* C13: validation accepts a specification with a GlusterFS on compute volume only
\* with inter-node communication enabled, at least 2 dedicated nodes, no low
\* priority node, max_tasks_per_node at most 1, autoscale disabled and a target
\* other than Windows; a validation that came upon such a volume in a
\* specification breaking one of these, low priority nodes among them, has failed.
C13_GlusterRequirements ==
    /\ (Accepted /\ DeclaresGluster) =>
          /\ conf.inter_node
          /\ conf.dedicated >= 2
          /\ conf.low_priority = 0
          /\ conf.max_tasks_per_node <= 1
          /\ ~conf.autoscale
          /\ ~IsWindows(conf.image)
    /\ (fn = "validate" /\ Terminated /\ DeclaresGluster /\ conf.low_priority > 0) =>
          (pc = "raised" /\ err = "config")

C13_Witness ==
    /\ Accepted
    /\ sdv = <<"gluster_replica">>
    /\ conf.inter_node /\ conf.dedicated = 2 /\ conf.low_priority = 0

\* C15: whenever validation succeeds with peer-to-peer enabled, inter-node
\* communication is enabled in the resulting configuration.
C15_P2PForcesInterNode ==
    (Accepted /\ conf.p2p) => conf.inter_node

\* the builder returned a request; the builder raised
Built == fn = "build" /\ pc = "returned"
BuildFailed == fn = "build" /\ pc = "raised"
\* number of GlusterFS on compute volumes among the volumes gone through
GlusterCount == Cardinality({i \in 1..Len(sdv) : IsGluster(sdv[i])})

\* C12 as stated: validation of a specification with autoscale enabled and a
\* dedicated or low priority count set fails with a configuration error.
C12_AutoscaleWithCountsRejected ==
    (fn = "validate" /\ Terminated /\ conf.autoscale
        /\ (conf.dedicated > 0 \/ conf.low_priority > 0))
    => (pc = "raised" /\ err = "config")

\* C12 amended: the validator does not refuse autoscale on account of the node
\* counts: a specification with autoscale enabled is accepted only without
\* peer-to-peer and without a GlusterFS on compute volume, whatever its counts;
\* the builder leaves the counts and the resize timeout out of the request of an
\* autoscale-enabled pool and hands them over otherwise.
C12_AutoscaleCountsLeftOut ==
    /\ (Accepted /\ conf.autoscale) => (~conf.p2p /\ ~DeclaresGluster)
    /\ (Built /\ conf.autoscale) =>
          /\ request.enable_auto_scale /\ request.auto_scale_formula
          /\ request.target_dedicated_nodes = NoneArg
          /\ request.target_low_priority_nodes = NoneArg
          /\ request.resize_timeout = NoneArg
    /\ (Built /\ ~conf.autoscale) =>
          /\ ~request.enable_auto_scale /\ ~request.auto_scale_formula
          /\ request.target_dedicated_nodes = conf.dedicated
          /\ request.target_low_priority_nodes = conf.low_priority

C12_Witness ==
    /\ Accepted
    /\ conf.autoscale
    /\ conf.dedicated = MaxTargetDedicated /\ conf.low_priority > 0

\* C14: a specification with more than one GlusterFS on compute volume is refused
\* by the validator, and by the builder before anything is uploaded or a request
\* is made: no request and no accepted configuration has two such volumes.
C14_OneGlusterVolume ==
    /\ (fn = "validate" /\ Terminated /\ GlusterCount > 1) =>
          (pc = "raised" /\ err = "config")
    /\ Accepted => (GlusterCount <= 1 /\ num_gluster = GlusterCount)
    /\ (fn = "build" /\ GlusterCount > 1) =>
          (pc = "raised" /\ err = "config" /\ request = NoRequest /\ ~uploaded)
    /\ request.built => (GlusterCount <= 1 /\ request.gluster_on_compute = (GlusterCount = 1))

C14_Witness ==
    /\ fn = "validate" /\ pc = "raised" /\ err = "config"
    /\ sdv = <<"gluster_replica", "gluster_replica">>
    /\ num_gluster = 2

\* the order of the optional flags as the claim lists them: blob mount, file
\* mount, encryption, GPU, cluster mounts, prefix, peer-to-peer, version,
\* blobxfer version, TCP tuning, HPN SSH swap
ListedOrder == <<"c", "a", "e", "g", "m", "p", "t", "v", "x", "n", "w">>
\* the order of the letters of the flags
LetterOrder ==
    <<"a", "b", "c", "d", "e", "f", "g", "m", "n", "o", "p", "s", "t", "v", "w", "x">>
Position(order, f) == CHOOSE i \in 1..Len(order) : order[i] = f
Listed(order) == {order[i] : i \in 1..Len(order)}
\* the flags of the line that the order lists come in that order, each once:
\* the line cut down to the flags listed is the order cut down to the flags of
\* the line
InOrder(line, order) ==
    LET inOrder == Listed(order)
        inLine == Listed(line)
        IsListed(f) == f \in inOrder
        IsEmitted(f) == f \in inLine
    IN  SelectSeq(line, IsListed) = SelectSeq(order, IsEmitted)

\* C16 as stated: the flags emitted come in the order blob mount, file mount,
\* encryption thumbprint, GPU, cluster mount arguments, storage entity prefix,
\* peer-to-peer descriptor, image version, transfer tool version, TCP tuning, HPN
\* SSH swap.
C16_ListedFlagOrder ==
    fn = "build" => InOrder(start_task, ListedOrder)

\* C16 amended: the flags emitted come in the order of their letters, which puts
\* file mount (-a) before blob mount (-c), then encryption (-e), GPU (-g), cluster
\* mount arguments (-m), TCP tuning (-n), storage entity prefix (-p), peer-to-peer
\* descriptor (-t), version (-v), HPN SSH swap (-w) and transfer tool version
\* (-x); every flag of the line is one the settings call for.
C16_LetterFlagOrder ==
    (fn = "build" /\ start_task # <<>>) =>
        /\ InOrder(start_task, LetterOrder)
        /\ Listed(start_task) \subseteq Listed(LetterOrder)
        /\ Listed(start_task) \subseteq Emitted(conf, vd, bopt)
        /\ {"v", "x"} \subseteq Listed(start_task)
        /\ (~conf.native /\ ~HasNodeAgent(conf.image)) =>
              Listed(start_task) = Emitted(conf, vd, bopt)

C16_Witness ==
    /\ Built
    /\ ~conf.native /\ conf.image = "ubuntu1604"
    /\ {"a", "c", "n", "p", "w", "x"} \subseteq Listed(start_task)
    /\ Position(start_task, "a") < Position(start_task, "c")
    /\ Position(start_task, "n") < Position(start_task, "p")
    /\ Position(start_task, "w") < Position(start_task, "x")

\* C17: no exit of the pool build leaves a temporary mount script on disk.
C17_ScriptsRemoved ==
    (fn = "build" /\ Terminated) => scripts = {}

\* C18 as stated: whenever the build fails, no resource file has been uploaded.
C18_NoUploadOnFailure ==
    BuildFailed => ~uploaded

\* C18 amended: a build that fails in the scan of the volumes, the subnet plan,
\* the cluster mounts, the generation of the mount scripts, the GPU driver setup or
\* the choice of the image has uploaded nothing; the digestion of the input data
\* and the assembly of the request come after the upload, so a build failing
\* there has uploaded the resource files; a request is returned only after the
\* upload.
C18_NoUploadBeforeUploadStep ==
    /\ (BuildFailed /\ err \in {"config", "network", "mount", "mount_script",
                                "driver", "aad", "image", "upload"}) => ~uploaded
    /\ (BuildFailed /\ err \in {"input_data", "assembly"}) => uploaded
    /\ BuildFailed => request = NoRequest
    /\ Built => (uploaded /\ request.built /\ request.resource_files)

C18_Witness ==
    /\ BuildFailed /\ err = "mount_script"
    /\ vd.azureblob /\ vd.azurefile
    /\ ~uploaded

(* C21: a cluster mount whose user options hold an option starting with      *)
(* nfsvers=, port=, transport= or backupvolfile-server= is rejected, for      *)
(* either cluster type, and no fstab line built holds such a user option.     *)
Colliding == {"nfsvers=", "port=", "transport=", "backupvolfile-server="}

C21_AllFourRejected ==
    fn = "mount" /\ pc = "returned" => fstab_mount.mo \cap Colliding = {}

(* C21, as the code has it: an NFS mount is rejected exactly when a user      *)
(* option starts with nfsvers= or port=, a GlusterFS mount exactly when one   *)
(* starts with backupvolfile-server= or transport=; the fstab line built      *)
(* carries the user options, none of them with a prefix refused for its type. *)
C21_RejectedPerType ==
    fn = "mount" /\ pc \in {"returned", "raised"} =>
        /\ pc = "returned" =>
              /\ fstab_mount.mo = amo
              /\ fstab_mount.fstype = sc.type
              /\ sc.type = "nfs" => amo \cap {"nfsvers=", "port="} = {}
              /\ sc.type = "glusterfs" =>
                    amo \cap {"backupvolfile-server=", "transport="} = {}
        /\ amo \cap {"nfsvers=", "port="} # {} /\ sc.type = "nfs" =>
              pc = "raised" /\ err = "mount" /\ fstab_mount = NoFstab
        /\ amo \cap {"backupvolfile-server=", "transport="} # {}
              /\ sc.type = "glusterfs" =>
              pc = "raised" /\ err = "mount" /\ fstab_mount = NoFstab

\* an NFS mount was refused for a port= option alone
C21_Witness ==
    /\ fn = "mount" /\ pc = "raised" /\ err = "mount"
    /\ sc.type = "nfs" /\ amo = {"port=", "other"}

(* C22: validation fails for every configuration that, with the validator's  *)
(* corrections applied, has inter-node communication enabled and both a       *)
(* dedicated and a low priority count above zero; no configuration that       *)
(* passed the check combines the three.                                       *)
Mixed == conf.inter_node /\ conf.dedicated > 0 /\ conf.low_priority > 0

C22_NoMixedInterNode ==
    fn = "validate" =>
        /\ pc \in {"v_volumes", "v_final", "returned"} => ~Mixed
        /\ Mixed /\ pc \notin {"v_p2p", "v_flags"} => pc = "raised" /\ err = "config"

\* the check of the mixed pool refused a configuration nothing else refuses
C22_Witness ==
    /\ fn = "validate" /\ pc = "raised" /\ err = "config"
    /\ Mixed /\ ~conf.p2p /\ ~conf.native /\ sdv = <<>>

(* C23: after a successful validation use_shipyard_docker_image is on        *)
(* whenever a custom image is used or the platform image is an allowed one    *)
(* other than canonical/ubuntuserver 16.04; for canonical/ubuntuserver 16.04  *)
(* the validator leaves the setting as it was given.                          *)
C23_ContainerImageForced ==
    Accepted =>
        /\ HasNodeAgent(conf.image) => conf.use_shipyard_docker_image
        /\ AllowedImage(conf.image) /\ conf.image # "ubuntu1604" =>
              conf.use_shipyard_docker_image
        /\ conf.image = "ubuntu1604" =>
              conf.use_shipyard_docker_image = given.use_shipyard_docker_image
        /\ HasNodeAgent(conf.image) \/ AllowedImage(conf.image)

\* a custom image given with the setting off was accepted with the setting on
C23_Witness ==
    /\ Accepted /\ conf.image = "custom_linux"
    /\ ~given.use_shipyard_docker_image /\ conf.use_shipyard_docker_image

(* C30: the validator's corrections are idempotent: for every configuration   *)
(* the validator accepts, a second call on the resulting configuration        *)
(* succeeds and changes no setting.                                           *)
C30_SecondCallChangesNothing ==
    fn = "validate" /\ again => pc # "raised" /\ conf = first

\* the second call returned on a configuration the first call had corrected
C30_Witness ==
    /\ fn = "validate" /\ again /\ pc = "returned"
    /\ given.block_until /\ ~conf.block_until
    /\ given.hpn_server_swap /\ ~conf.hpn_server_swap
    /\ ~given.use_shipyard_docker_image /\ conf.use_shipyard_docker_image
    /\ given.attempt_recovery /\ ~conf.attempt_recovery

(* C24: with autoscale enabled the pool request carries the autoscale         *)
(* formula and evaluation interval and neither target count nor the resize    *)
(* timeout; with autoscale disabled it carries the counts and the resize      *)
(* timeout of the specification and no formula or interval.  No request       *)
(* carries both.                                                              *)
CarriesCounts ==
    \/ request.target_dedicated_nodes # NoneArg
    \/ request.target_low_priority_nodes # NoneArg
    \/ request.resize_timeout # NoneArg
CarriesFormula == request.auto_scale_formula \/ request.auto_scale_evaluation_interval

C24_AutoscaleExclusive ==
    Built =>
        /\ request.enable_auto_scale = conf.autoscale
        /\ conf.autoscale =>
              /\ request.auto_scale_formula
              /\ request.auto_scale_evaluation_interval
              /\ ~CarriesCounts
        /\ ~conf.autoscale =>
              /\ request.target_dedicated_nodes = conf.dedicated
              /\ request.target_low_priority_nodes = conf.low_priority
              /\ request.resize_timeout = IF bopt.resize_timeout THEN 1 ELSE NoneArg
              /\ ~CarriesFormula
        /\ ~(CarriesCounts /\ CarriesFormula)

\* a request of an autoscale-enabled pool whose specification gives a resize
\* timeout
C24_Witness ==
    /\ Built /\ conf.autoscale /\ bopt.resize_timeout
    /\ CarriesFormula /\ ~CarriesCounts

(* C25: for a Linux platform image pool that is neither native nor a custom  *)
(* image pool the command line holds -c if and only if an Azure blob volume   *)
(* is declared, and -g if and only if the vm size is a GPU size; a            *)
(* specification with a blob volume and no GPU gives -c without -g.           *)
LinuxPlatformPool ==
    /\ ~conf.native /\ ~HasNodeAgent(conf.image) /\ ~IsWindows(conf.image)
DeclaresBlob == \E i \in 1..Len(sdv) : sdv[i] = "azure_blob"

C25_BlobAndGpuFlags ==
    Built /\ LinuxPlatformPool =>
        /\ "c" \in Listed(request.command_line) <=> DeclaresBlob
        /\ "g" \in Listed(request.command_line) <=> bopt.gpu

\* a request for a pool with a blob volume and a vm size without GPU
C25_Witness ==
    /\ Built /\ LinuxPlatformPool /\ DeclaresBlob /\ ~bopt.gpu
    /\ "c" \in Listed(request.command_line)
    /\ "g" \notin Listed(request.command_line)

(* C26: on a resize that raises the dedicated count of a pool with a         *)
(* GlusterFS on compute volume, the expansion run is given a master ip of a   *)
(* node present before the resize and a list of new nodes holding exactly the *)
(* nodes absent before the resize; the run is started only when the pool's    *)
(* current dedicated count is the configured one, and otherwise the resize    *)
(* fails without the run.                                                     *)
Expanding == fn = "resize" /\ rs.gluster_present /\ rs.resize_up_d
SetupCalled == \E i \in 1..Len(trail) : trail[i] = "_setup_glusterfs"
Ips(S) == {IpAddress(n) : n \in S}

C26_ExpansionArguments ==
    fn = "resize" =>
        /\ SetupCalled =>
              /\ Expanding
              /\ masterip \in Ips(old_nodes)
              /\ Listed(new_nodes) = Ips(rnodes \ old_nodes)
              /\ Len(new_nodes) = Cardinality(rnodes \ old_nodes)
              /\ Listed(new_nodes) \cap Ips(old_nodes) = {}
              /\ rs.current_dedicated = rs.dedicated
        /\ Expanding /\ pc \in {"returned", "raised"} /\ err \notin {"service", "ssh"}
              /\ rs.current_dedicated # rs.dedicated =>
              pc = "raised" /\ err = "resize" /\ ~SetupCalled

\* an expansion by two nodes of a pool of one node
C26_Witness ==
    /\ fn = "resize" /\ pc = "returned" /\ SetupCalled
    /\ old_nodes = {2} /\ rnodes = {1, 2, 3}
    /\ new_nodes = <<11, 13>> /\ masterip = 12

(* C27: action_pool_add checks first whether the pool exists: when a pool     *)
(* with the configured id exists it fails before the validator is called,     *)
(* before storage containers are created or cleared, and before anything is   *)
(* uploaded or a pool is requested.                                           *)
C27_ExistenceFirst ==
    fn = "add" =>
        /\ trail # <<>> => trail[1] = "pool.exists"
        /\ ap.exists =>
              /\ pc = "raised" /\ err = "exists"
              /\ trail = <<"pool.exists">>
              /\ conf = NoConf /\ given = NoGiven
              /\ ~uploaded /\ request = NoRequest

\* the call failed on a pool that exists
C27_Witness ==
    /\ fn = "add" /\ pc = "raised" /\ err = "exists" /\ ap.exists
    /\ trail = <<"pool.exists">>

(* C28: an image update submits no job and starts no SSH process when         *)
(* peer-to-peer distribution is enabled or the pool is native (it fails),     *)
(* when there is no image to update, or when the pool has neither a dedicated *)
(* nor a low priority node (it returns without error).                        *)
NothingDone ==
    /\ events = <<>> /\ jobState = "absent" /\ taskState = "none"
    /\ ~sshCalled /\ started = 0
PoolRead == pc \notin {"u_start", "u_pool"} /\ ~cfg.p2p /\ ~cfg.native
            /\ (cfg.docker \/ cfg.singularity)

C28_NothingToUpdate ==
    fn = "update" =>
        /\ cfg.p2p \/ cfg.native =>
              pc = "raised" /\ err = "config" /\ NothingDone
        /\ pc # "u_start" /\ ~cfg.p2p /\ ~cfg.native
              /\ ~cfg.docker /\ ~cfg.singularity =>
              pc = "returned" /\ err = "none" /\ NothingDone
        /\ PoolRead /\ pool.dedicated = 0 /\ pool.low_priority = 0 =>
              pc = "returned" /\ err = "none" /\ NothingDone

\* an update with images on a pool without nodes returned
C28_Witness ==
    /\ fn = "update" /\ PoolRead /\ cfg.docker
    /\ pool.dedicated = 0 /\ pool.low_priority = 0
    /\ pc = "returned" /\ NothingDone

(* C29: in an image update that runs a plain task (a pool of at most one     *)
(* dedicated node) no marker file is looked up: the run is Verified if and    *)
(* only if the completed task has execution info with exit code 0, and the    *)
(* job is deleted in both outcomes before the error, if any, is raised.       *)
PlainRun == fn = "update" /\ jobState # "absent" /\ ~MultiInstance(pool)

====
